---- MODULE Spec2Model ----
(***************************************************************************)
(* NLC-9 Extended: the nine-word frame codec, the schema-typed parameter   *)
(* codec and the message router of src/main.py.                            *)
(*                                                                         *)
(* Representation.                                                         *)
(*  - A uint32 is a pair <<hi, lo>> of 16-bit halves (value hi*65536+lo),  *)
(*    so that the full 32-bit width is kept.                               *)
(*  - A Python str is a sequence of character codes (ASCII).               *)
(*  - A Python value is a record tagged by its type in field t; an int is  *)
(*    a sign and a uint32 magnitude, None is [t |-> "none"].               *)
(*  - A Python float is an exact decimal [ip, fp] = ip + fp/FDen with      *)
(*    0 <= fp < FDen (ip = floor of the value).                            *)
(*  - time.time() is the integer clock `now`.                              *)
(***************************************************************************)
EXTENDS Integers, Sequences, FiniteSets, TLC

(***************************************************************************)
(* Config (src/main.py:60-72)                                              *)
(***************************************************************************)
VERSION == 2
MAX_MESSAGE_QUEUE == 2
MAX_CONSENSUS_ITEMS == 2
RATE_LIMIT_MESSAGES == 2
RATE_LIMIT_WINDOW == 2

(***************************************************************************)
(* 16-bit and 32-bit word arithmetic                                       *)
(***************************************************************************)
H16 == 256 * 256

Min(a, b) == IF a < b THEN a ELSE b

\* a ^ b for a and b in 0..15; tables are written as tuples (<<>> \o ...),
\* which TLC computes once
XorNibble ==
    LET RECURSIVE XorBits(_, _)
        XorBits(a, b) ==
            IF a = 0 THEN b
            ELSE IF b = 0 THEN a
            ELSE (((a % 2) + (b % 2)) % 2) + 2 * XorBits(a \div 2, b \div 2)
    IN  <<>> \o [a \in 1..16 |-> <<>> \o [b \in 1..16 |-> XorBits(a - 1, b - 1)]]

\* a ^ b for 16-bit a and b, nibble by nibble
Xor(a, b) ==
    XorNibble[(a % 16) + 1][(b % 16) + 1]
    + 16 * XorNibble[((a \div 16) % 16) + 1][((b \div 16) % 16) + 1]
    + 256 * XorNibble[((a \div 256) % 16) + 1][((b \div 256) % 16) + 1]
    + 4096 * XorNibble[(a \div 4096) + 1][(b \div 4096) + 1]

\* a & b for a and b in 0..15
AndNibble ==
    LET RECURSIVE AndBits(_, _)
        AndBits(a, b) ==
            IF a = 0 \/ b = 0 THEN 0
            ELSE ((a % 2) * (b % 2)) + 2 * AndBits(a \div 2, b \div 2)
    IN  <<>> \o [a \in 1..16 |-> <<>> \o [b \in 1..16 |-> AndBits(a - 1, b - 1)]]

\* a & b for 16-bit a and b, nibble by nibble
BitAnd(a, b) ==
    AndNibble[(a % 16) + 1][(b % 16) + 1]
    + 16 * AndNibble[((a \div 16) % 16) + 1][((b \div 16) % 16) + 1]
    + 256 * AndNibble[((a \div 256) % 16) + 1][((b \div 256) % 16) + 1]
    + 4096 * AndNibble[(a \div 4096) + 1][(b \div 4096) + 1]

\* 1 << n, n in 0..30
Pow2(n) ==
    <<1, 2, 4, 8, 16, 32, 64, 128, 256, 512, 1024, 2048, 4096, 8192, 16384, 32768,
      65536, 131072, 262144, 524288, 1048576, 2097152, 4194304, 8388608, 16777216,
      33554432, 67108864, 134217728, 268435456, 536870912, 1073741824>>[n + 1]

W32Xor(x, y) == <<Xor(x[1], y[1]), Xor(x[2], y[2])>>


W32Add(x, y) ==
    LET lo == x[2] + y[2]
        hi == x[1] + y[1] + (lo \div H16)
    IN  <<hi % H16, lo % H16>>

W32Zero == <<0, 0>>

\* n & 0xFFFFFFFF for a Python int n that fits a machine integer
\* (two's complement for negative n).
u32(n) == <<(n \div H16) % H16, n % H16>>

\* (w * k) & 0xFFFFFFFF for a word w and a natural k below 2^28, k taken
\* in two digits of base 2^14 (MulSmall multiplies by a natural below 2^15)
W32MulNat(w, k) ==
    LET MulSmall(v, j) == <<(v[1] * j + ((v[2] * j) \div H16)) % H16, (v[2] * j) % H16>>
    IN  W32Add(MulSmall(MulSmall(w, k \div 16384), 16384), MulSmall(w, k % 16384))

(***************************************************************************)
(* CRC32 (zlib.crc32): reflected polynomial 0xEDB88320, initial value and  *)
(* final xor 0xFFFFFFFF, one table step per byte.                          *)
(***************************************************************************)
\* k steps of the bitwise CRC on the word c: c >> 1, xor the polynomial
\* when the bit shifted out is 1
RECURSIVE CrcBits(_, _)
CrcBits(c, k) ==
    LET shr1 == <<c[1] \div 2, (c[1] % 2) * 32768 + (c[2] \div 2)>>
    IN  IF k = 0 THEN c
        ELSE CrcBits(IF c[2] % 2 = 1 THEN W32Xor(shr1, <<60856, 33568>>) ELSE shr1, k - 1)

\* entry i + 1 is the table value of byte i
CrcTable == <<>> \o [i \in 1..256 |-> CrcBits(<<0, i - 1>>, 8)]

\* one byte: table[(c ^ byte) & 0xFF] ^ (c >> 8)
CrcStep(c, byte) ==
    W32Xor(CrcTable[Xor(c[2] % 256, byte) + 1],
           <<c[1] \div 256, (c[1] % 256) * 256 + (c[2] \div 256)>>)

\* the bytes of data from position i on, four at a time while four are left
\* (c[1] < H16 holds of every word; it has c computed before the next step)
RECURSIVE CrcUpdate(_, _, _)
CrcUpdate(c, data, i) ==
    IF c[1] < H16 /\ i > Len(data) THEN c
    ELSE IF i + 3 <= Len(data)
    THEN CrcUpdate(CrcStep(CrcStep(CrcStep(CrcStep(c, data[i]), data[i + 1]),
                                   data[i + 2]), data[i + 3]), data, i + 4)
    ELSE CrcUpdate(CrcStep(c, data[i]), data, i + 1)

\* crc32_u32(data): data is a sequence of bytes
\* a checksum that leaves out the first byte
crc32_u32_SkipFirst(data) == W32Xor(CrcUpdate(<<65535, 65535>>, data, 2), <<65535, 65535>>)

crc32_u32(data) == W32Xor(CrcUpdate(<<65535, 65535>>, data, 1), <<65535, 65535>>)

(***************************************************************************)
(* Strings as sequences of character codes: strip, lower, upper            *)
(***************************************************************************)
\* str.lower() and str.upper() on ASCII text
Lower(s) == [i \in 1..Len(s) |-> IF s[i] >= 65 /\ s[i] <= 90 THEN s[i] + 32 ELSE s[i]]

Upper(s) == [i \in 1..Len(s) |-> IF s[i] >= 97 /\ s[i] <= 122 THEN s[i] - 32 ELSE s[i]]

\* str.strip(): from the first to the last character that is not whitespace
Strip(s) ==
    LET keep == {i \in 1..Len(s) : s[i] \notin {9, 10, 11, 12, 13, 28, 29, 30, 31, 32}}
    IN  IF keep = {} THEN <<>>
        ELSE SubSeq(s, CHOOSE i \in keep : \A j \in keep : i <= j,
                       CHOOSE i \in keep : \A j \in keep : j <= i)

\* token_id(name): CRC32 of the stripped, lower-cased name
token_id(name) == crc32_u32(Lower(Strip(name)))

\* Python None where the model writes it as a plain value
NoneVal == "None"

(***************************************************************************)
(* Flags and the seeded registries (src/main.py:80-156). A name is the     *)
(* sequence of its character codes; the comment spells it.                 *)
(***************************************************************************)
FLAG_BITS ==
       <<65, 67, 75>> :> 0 @@   \* ACK
       <<83, 84, 82, 69, 65, 77>> :> 1 @@   \* STREAM
       <<85, 82, 71, 69, 78, 84>> :> 2 @@   \* URGENT
       <<69, 78, 67, 82, 89, 80, 84, 69, 68>> :> 3 @@   \* ENCRYPTED
       <<83, 73, 71, 78, 69, 68>> :> 4 @@   \* SIGNED
       <<66, 82, 79, 65, 68, 67, 65, 83, 84>> :> 5 @@   \* BROADCAST
       <<67, 79, 78, 83, 69, 78, 83, 85, 83>> :> 6 @@   \* CONSENSUS
       <<82, 69, 80, 76, 65, 89>> :> 7 @@   \* REPLAY
       <<67, 79, 77, 80, 82, 69, 83, 83>> :> 8 @@   \* COMPRESS
       <<82, 79, 85, 84, 69>> :> 9 @@   \* ROUTE
       <<77, 69, 84, 82, 73, 67>> :> 10 @@   \* METRIC
       <<68, 69, 66, 85, 71>> :> 11   \* DEBUG

VERBS ==
       <<80, 73, 78, 71>> :> 1 @@   \* PING
       <<71, 69, 84>> :> 2 @@   \* GET
       <<83, 69, 84>> :> 3 @@   \* SET
       <<65, 83, 75>> :> 4 @@   \* ASK
       <<84, 69, 76, 76>> :> 5 @@   \* TELL
       <<80, 76, 65, 78>> :> 6 @@   \* PLAN
       <<69, 88, 69, 67>> :> 7 @@   \* EXEC
       <<82, 69, 80, 79, 82, 84>> :> 8 @@   \* REPORT
       <<65, 67, 75>> :> 9 @@   \* ACK
       <<78, 65, 67, 75>> :> 10 @@   \* NACK
       <<83, 73, 71, 78, 65, 76>> :> 11 @@   \* SIGNAL
       <<84, 82, 65, 68, 69>> :> 12 @@   \* TRADE
       <<72, 69, 68, 71, 69>> :> 13 @@   \* HEDGE
       <<67, 76, 79, 83, 69>> :> 14 @@   \* CLOSE
       <<67, 65, 78, 67, 69, 76>> :> 15 @@   \* CANCEL
       <<67, 79, 79, 82, 68>> :> 16 @@   \* COORD
       <<86, 79, 84, 69>> :> 17 @@   \* VOTE
       <<83, 89, 78, 67>> :> 18 @@   \* SYNC
       <<69, 76, 69, 67, 84>> :> 19 @@   \* ELECT
       <<68, 69, 76, 69, 71, 65, 84, 69>> :> 20 @@   \* DELEGATE
       <<77, 79, 78, 73, 84, 79, 82>> :> 21 @@   \* MONITOR
       <<65, 76, 69, 82, 84>> :> 22 @@   \* ALERT
       <<77, 69, 65, 83, 85, 82, 69>> :> 23 @@   \* MEASURE
       <<65, 78, 65, 76, 89, 90, 69>> :> 24 @@   \* ANALYZE
       <<79, 80, 84, 73, 77, 73, 90, 69>> :> 25   \* OPTIMIZE

OBJECTS ==
       <<65, 71, 69, 78, 84>> :> 1 @@   \* AGENT
       <<84, 65, 83, 75>> :> 2 @@   \* TASK
       <<84, 79, 79, 76>> :> 3 @@   \* TOOL
       <<77, 69, 77, 79, 82, 89>> :> 4 @@   \* MEMORY
       <<70, 73, 76, 69>> :> 5 @@   \* FILE
       <<77, 79, 68, 69, 76>> :> 6 @@   \* MODEL
       <<69, 78, 86>> :> 7 @@   \* ENV
       <<72, 69, 65, 76, 84, 72>> :> 8 @@   \* HEALTH
       <<69, 86, 69, 78, 84>> :> 9 @@   \* EVENT
       <<69, 82, 82, 79, 82>> :> 10 @@   \* ERROR
       <<77, 65, 82, 75, 69, 84>> :> 11 @@   \* MARKET
       <<80, 79, 79, 76>> :> 12 @@   \* POOL
       <<87, 65, 76, 76, 69, 84>> :> 13 @@   \* WALLET
       <<80, 79, 83, 73, 84, 73, 79, 78>> :> 14 @@   \* POSITION
       <<79, 82, 68, 69, 82>> :> 15 @@   \* ORDER
       <<83, 87, 65, 82, 77>> :> 16 @@   \* SWARM
       <<83, 84, 82, 65, 84, 69, 71, 89>> :> 17 @@   \* STRATEGY
       <<67, 79, 78, 83, 69, 78, 83, 85, 83>> :> 18 @@   \* CONSENSUS
       <<76, 69, 65, 68, 69, 82>> :> 19 @@   \* LEADER
       <<70, 79, 76, 76, 79, 87, 69, 82>> :> 20 @@   \* FOLLOWER
       <<77, 69, 84, 82, 73, 67, 83>> :> 21 @@   \* METRICS
       <<67, 79, 78, 70, 73, 71>> :> 22 @@   \* CONFIG
       <<78, 69, 84, 87, 79, 82, 75>> :> 23 @@   \* NETWORK
       <<83, 69, 67, 85, 82, 73, 84, 89>> :> 24 @@   \* SECURITY
       <<76, 79, 71>> :> 25   \* LOG

(***************************************************************************)
(* Python values (JsonVal): tagged records                                 *)
(*   str    [t |-> "str", v |-> character codes]                           *)
(*   int    [t |-> "int", neg, w]  sign and 32-bit magnitude               *)
(*   float  [t |-> "float", ip, fp]  the exact decimal ip + fp/FDen,       *)
(*          0 <= fp < FDen (floating-point rounding error is left out)     *)
(*   bool   [t |-> "bool", v |-> BOOLEAN]                                  *)
(*   None   [t |-> "none"]                                                 *)
(***************************************************************************)
FDen == 10 * 1000000

PyNone == [t |-> "none"]

Str(cs) == [t |-> "str", v |-> cs]

Bool(b) == [t |-> "bool", v |-> b]

IntV(n) == [t |-> "int", neg |-> n < 0, w |-> u32(IF n < 0 THEN 0 - n ELSE n)]

IntW(w) == [t |-> "int", neg |-> FALSE, w |-> w]

Float(ip, fp) == [t |-> "float", ip |-> ip, fp |-> fp]

\* a word below 2^31 as a number
W32Nat(w) == w[1] * H16 + w[2]

\* u32(n) for a Python int value
U32OfInt(x) == IF x.neg THEN W32Add(W32Xor(x.w, <<65535, 65535>>), <<0, 1>>) ELSE x.w

\* divmod of a word by d (2 <= d < 2^27), long division over the eight
\* hexadecimal digits from the top (digit 0 the least significant)
W32DivMod(w, d) ==
    LET Nibble(i) == IF i < 4 THEN (w[2] \div Pow2(4 * i)) % 16
                     ELSE (w[1] \div Pow2(4 * i - 16)) % 16
        RECURSIVE Step(_, _, _)
        Step(i, quo, rem) ==
            IF i < 0 THEN [quo |-> quo, rem |-> rem]
            ELSE Step(i - 1, 16 * quo + ((16 * rem + Nibble(i)) \div d),
                      (16 * rem + Nibble(i)) % d)
    IN  Step(7, 0, 0)

IsDigits(cs) == cs # <<>> /\ \A i \in 1..Len(cs) : cs[i] \in 48..57

\* the number a sequence of at most nine decimal digits denotes
DigitsNat(ds) ==
    LET n == Len(ds)
        d(i) == IF i <= n THEN ds[i] - 48 ELSE 0
        p(i) == CASE n - i = 0 -> 1 [] n - i = 1 -> 10 [] n - i = 2 -> 100
                  [] n - i = 3 -> 1000 [] n - i = 4 -> 10000 [] n - i = 5 -> 100000
                  [] n - i = 6 -> 1000000 [] n - i = 7 -> 10000000 [] OTHER -> 100000000
    IN  d(1) * p(1) + d(2) * p(2) + d(3) * p(3) + d(4) * p(4) + d(5) * p(5)
          + d(6) * p(6) + d(7) * p(7) + d(8) * p(8) + d(9) * p(9)

\* a numeric literal as int() and float() read it: surrounding whitespace
\* stripped, then an optional sign
Unsigned(cs) ==
    LET s == Strip(cs)
    IN  IF s # <<>> /\ Head(s) \in {43, 45} THEN Tail(s) ELSE s

IsNegative(cs) == Strip(cs) # <<>> /\ Head(Strip(cs)) = 45

\* the text before and after the first occurrence of one of the characters
\* chs (the whole text and nothing when there is none)
Before(cs, chs) ==
    LET at == {i \in 1..Len(cs) : cs[i] \in chs}
    IN  IF at = {} THEN cs ELSE SubSeq(cs, 1, (CHOOSE i \in at : \A j \in at : i <= j) - 1)

After(cs, chs) ==
    LET at == {i \in 1..Len(cs) : cs[i] \in chs}
    IN  IF at = {} THEN <<>> ELSE SubSeq(cs, (CHOOSE i \in at : \A j \in at : i <= j) + 1, Len(cs))

\* whether int(str) succeeds (a literal of at most ten digits, no underscores)
IsIntLiteral(cs) == IsDigits(Unsigned(cs)) /\ Len(Unsigned(cs)) <= 10

\* int(str) as sign and 32-bit magnitude
IntLiteral(cs) ==
    LET ds == Unsigned(cs)
        n == Len(ds)
        hi == IF n > 4 THEN DigitsNat(SubSeq(ds, 1, n - 4)) ELSE 0
        lo == DigitsNat(SubSeq(ds, IF n > 4 THEN n - 3 ELSE 1, n))
    IN  [t |-> "int", neg |-> IsNegative(cs) /\ (hi # 0 \/ lo # 0),
         w |-> W32Add(W32MulNat(u32(hi), 10000), u32(lo))]

\* a float literal is [sign] digits [. digits] [e [sign] digits];
\* whether float(str) succeeds with a finite value the model can hold: a
\* decimal literal whose exponent, if any, is -1..-7 (inf, nan and other
\* texts make the conversion or the int(round()) after it raise)
IsFloatLiteral(cs) ==
    LET m == Before(Unsigned(cs), {101, 69})
        ip == Before(m, {46})
        fp == After(m, {46})
        e == After(Unsigned(cs), {101, 69})
    IN  /\ \A i \in 1..Len(ip) : ip[i] \in 48..57
        /\ \A i \in 1..Len(fp) : fp[i] \in 48..57
        /\ ip # <<>> \/ fp # <<>>
        /\ Len(ip) <= 9 /\ Len(fp) <= 7
        /\ (\E i \in 1..Len(Unsigned(cs)) : Unsigned(cs)[i] \in {101, 69}) =>
              (Len(e) \in 2..3 /\ Head(e) = 45 /\ IsDigits(Tail(e)) /\ DigitsNat(Tail(e)) \in 1..7)

Pow10(n) ==
    CASE n = 0 -> 1 [] n = 1 -> 10 [] n = 2 -> 100 [] n = 3 -> 1000 [] n = 4 -> 10000
      [] n = 5 -> 100000 [] n = 6 -> 1000000 [] n = 7 -> 10000000 [] n = 8 -> 100000000
      [] OTHER -> 1000000000

\* float(str) for a literal of at most seven decimals after the exponent is
\* applied (the decimals the model keeps)
FloatLiteral(cs) ==
    LET m == Before(Unsigned(cs), {101, 69})
        ex == After(Unsigned(cs), {101, 69})
        ip == DigitsNat(Before(m, {46}))
        fd == After(m, {46})
        fp == DigitsNat(fd) * Pow10(7 - Len(fd))
        e == IF ex = <<>> THEN 0 ELSE DigitsNat(Tail(ex))
        sip == ip \div Pow10(e)
        sfp == (ip % Pow10(e)) * Pow10(7 - e) + fp \div Pow10(e)
    IN  IF IsNegative(cs) /\ (sip # 0 \/ sfp # 0)
        THEN IF sfp = 0 THEN Float(0 - sip, 0) ELSE Float(0 - sip - 1, FDen - sfp)
        ELSE Float(sip, sfp)

\* int(val)
PyInt(val) ==
    CASE val.t = "int" -> val
      [] val.t = "bool" -> IntV(IF val.v THEN 1 ELSE 0)
      [] val.t = "float" -> IntV(IF val.ip >= 0 \/ val.fp = 0 THEN val.ip ELSE val.ip + 1)
      [] val.t = "str" -> IntLiteral(val.v)

\* float(val), for an int of magnitude below 2^31
PyFloat(val) ==
    CASE val.t = "float" -> val
      [] val.t = "bool" -> Float(IF val.v THEN 1 ELSE 0, 0)
      [] val.t = "int" -> Float(IF val.neg THEN 0 - W32Nat(val.w) ELSE W32Nat(val.w), 0)
      [] val.t = "str" -> FloatLiteral(val.v)

\* the truth value `val` has in a condition
PyTruth(val) ==
    CASE val.t = "bool" -> val.v
      [] val.t = "int" -> val.w # W32Zero
      [] val.t = "float" -> val.ip # 0 \/ val.fp # 0
      [] val.t = "str" -> val.v # <<>>
      [] val.t = "none" -> FALSE

RECURSIVE NatDigits(_)
NatDigits(n) == IF n < 10 THEN <<48 + n>> ELSE NatDigits(n \div 10) \o <<48 + (n % 10)>>

\* the decimal digits of a word
W32Digits(w) ==
    LET qr == W32DivMod(w, 10)
    IN  IF qr.quo = 0 THEN <<48 + qr.rem>> ELSE NatDigits(qr.quo) \o <<48 + qr.rem>>

\* str(x) of a float: the shortest decimal that reads back as x, with at
\* least one decimal, and in exponent form below 0.0001
FloatStr(x) ==
    LET StripZeros(ds) ==
            LET nz == {i \in 1..Len(ds) : ds[i] # 48} \cup {1}
            IN  SubSeq(ds, 1, CHOOSE i \in nz : \A j \in nz : j <= i)
        FracDigits(f) == [i \in 1..7 |-> 48 + ((f \div Pow10(7 - i)) % 10)]
        neg == x.ip < 0
        ip == IF ~neg THEN x.ip ELSE IF x.fp = 0 THEN 0 - x.ip ELSE 0 - x.ip - 1
        fp == IF ~neg \/ x.fp = 0 THEN x.fp ELSE FDen - x.fp
        sign == IF neg THEN <<45>> ELSE <<>>
        ds == StripZeros(NatDigits(fp))
    IN  IF ip = 0 /\ fp > 0 /\ fp < 1000
        THEN sign \o <<Head(ds)>> \o (IF Len(ds) > 1 THEN <<46>> \o Tail(ds) ELSE <<>>)
                  \o <<101, 45, 48, 48 + (8 - Len(NatDigits(fp)))>>
        ELSE sign \o NatDigits(ip) \o <<46>> \o StripZeros(FracDigits(fp))

\* str(val)
PyStr(val) ==
    CASE val.t = "str" -> val.v
      [] val.t = "float" -> FloatStr(val)
      [] val.t = "int" -> (IF val.neg THEN <<45>> ELSE <<>>) \o W32Digits(val.w)
      [] val.t = "bool" -> IF val.v THEN <<84, 114, 117, 101>> ELSE <<70, 97, 108, 115, 101>>
      [] val.t = "none" -> <<78, 111, 110, 101>>

\* int(round(x * scale)) & 0xFFFFFFFF, scale a divisor of FDen; round() goes
\* to the nearest integer, a tie to the even one
to_fixed_u32(x, scale) ==
    LET k == FDen \div scale
        q == x.fp \div k
        r == x.fp % k
        odd == (((x.ip % 2) * (scale % 2)) + q) % 2 = 1
        up == 2 * r > k \/ (2 * r = k /\ odd)
    IN  W32Add(W32MulNat(u32(x.ip), scale), u32(IF up THEN q + 1 ELSE q))

\* (n & 0xFFFFFFFF) / float(scale)
from_fixed_u32(n, scale) ==
    LET qr == W32DivMod(n, scale)
    IN  Float(qr.quo, qr.rem * (FDen \div scale))

\* domain_id16(name): 0 for an empty or absent name, else the low 16 bits
domain_id16(name) ==
    IF name.t = "none" \/ name.v = <<>> THEN 0
    ELSE crc32_u32(Lower(Strip(name.v)))[2]

(***************************************************************************)
(* pack9 / unpack9: nine words as 36 big-endian bytes                      *)
(***************************************************************************)
\* the big-endian bytes of the words, in order
PackWords(ws) ==
    LET WordBytes(w) == <<w[1] \div 256, w[1] % 256, w[2] \div 256, w[2] % 256>>
    IN  <<>> \o [i \in 1..(4 * Len(ws)) |-> WordBytes(ws[((i - 1) \div 4) + 1])[((i - 1) % 4) + 1]]

\* pack9(nums): "error" unless exactly nine words
pack9(nums) == IF Len(nums) # 9 THEN "error" ELSE PackWords(nums)

unpack9(b) ==
    IF Len(b) # 36 THEN "error"
    ELSE [i \in 1..9 |->
            <<b[4 * i - 3] * 256 + b[4 * i - 2], b[4 * i - 1] * 256 + b[4 * i]>>]

(***************************************************************************)
(* base64.b64encode / b64decode, bytes.hex / bytes.fromhex; texts are      *)
(* sequences of character codes                                            *)
(***************************************************************************)
\* base64.b64encode(b): three bytes make four characters of the alphabet
\* A-Z, a-z, 0-9, + and /; "=" fills the last group
b64encode(b) ==
    LET n == Len(b)
        B64Char(v) ==
            IF v < 26 THEN 65 + v
            ELSE IF v < 52 THEN 97 + (v - 26)
            ELSE IF v < 62 THEN 48 + (v - 52)
            ELSE IF v = 62 THEN 43 ELSE 47
        At(i) == IF i <= n THEN b[i] ELSE 0
        Group(g) == At(3 * g + 1) * H16 + At(3 * g + 2) * 256 + At(3 * g + 3)
        Shift(k) == IF k = 0 THEN 64 * 64 * 64 ELSE IF k = 1 THEN 64 * 64 ELSE IF k = 2 THEN 64 ELSE 1
        Ch(j) == LET g == (j - 1) \div 4
                     k == (j - 1) % 4
                 IN  IF k >= 2 /\ 3 * g + k > n THEN 61
                     ELSE B64Char((Group(g) \div Shift(k)) % 64)
    IN  <<>> \o [j \in 1..(4 * ((n + 2) \div 3)) |-> Ch(j)]

\* base64.b64decode(s): [ok, b] with the bytes b, not ok for binascii.Error.
\* The scan is that of binascii.a2b_base64 without strict mode: characters
\* outside the alphabet are skipped, "=" ends the data once the group has
\* two characters and enough padding, anything left in a group is an error
b64decode(s) ==
    LET B64Value(ch) ==
            IF ch \in 65..90 THEN ch - 65
            ELSE IF ch \in 97..122 THEN ch - 97 + 26
            ELSE IF ch \in 48..57 THEN ch - 48 + 52
            ELSE IF ch = 43 THEN 62
            ELSE IF ch = 47 THEN 63 ELSE 64
        RECURSIVE B64Scan(_, _, _)
        B64Scan(i, pads, data) ==
            IF i > Len(s)
            THEN [ok |-> Len(data) % 4 = 0, data |-> data]
            ELSE IF s[i] = 61
                 THEN IF Len(data) % 4 >= 2 /\ (Len(data) % 4) + pads + 1 >= 4
                      THEN [ok |-> TRUE, data |-> data]
                      ELSE B64Scan(i + 1, IF Len(data) % 4 >= 2 THEN pads + 1 ELSE pads, data)
                 ELSE IF B64Value(s[i]) = 64
                      THEN B64Scan(i + 1, pads, data)
                      ELSE B64Scan(i + 1, 0, Append(data, B64Value(s[i])))
        scan == B64Scan(1, 0, <<>>)
        n == Len(scan.data)
        At(i) == IF i <= n THEN scan.data[i] ELSE 0
        Group(g) == At(4 * g + 1) * 64 * 64 * 64 + At(4 * g + 2) * 64 * 64
                      + At(4 * g + 3) * 64 + At(4 * g + 4)
        Byte(j) == LET g == (j - 1) \div 3
                       k == (j - 1) % 3
                   IN  (Group(g) \div (IF k = 0 THEN H16 ELSE IF k = 1 THEN 256 ELSE 1)) % 256
    IN  [ok |-> scan.ok,
         b |-> <<>> \o [j \in 1..(3 * (n \div 4) + (IF n % 4 = 0 THEN 0 ELSE (n % 4) - 1)) |-> Byte(j)]]

\* bytes.hex(): two lower-case digits a byte
hex(b) ==
    LET Digit(d) == IF d < 10 THEN 48 + d ELSE 97 + (d - 10)
    IN  <<>> \o [j \in 1..(2 * Len(b)) |->
                    IF j % 2 = 1 THEN Digit(b[(j + 1) \div 2] \div 16)
                    ELSE Digit(b[j \div 2] % 16)]

\* bytes.fromhex(s): ASCII whitespace between bytes is skipped, every byte
\* is two adjacent digits of either case; [ok, b] with the bytes b, not ok
\* for ValueError
fromhex(s) ==
    LET HexValue(ch) ==
            IF ch \in 48..57 THEN ch - 48
            ELSE IF ch \in 97..102 THEN ch - 97 + 10
            ELSE IF ch \in 65..70 THEN ch - 65 + 10 ELSE 16
        RECURSIVE HexScan(_, _)
        HexScan(i, out) ==
            IF i > Len(s) THEN [ok |-> TRUE, b |-> out]
            ELSE IF s[i] \in {9, 10, 11, 12, 13, 32} THEN HexScan(i + 1, out)
            ELSE IF i + 1 > Len(s) \/ HexValue(s[i]) = 16 \/ HexValue(s[i + 1]) = 16
            THEN [ok |-> FALSE, b |-> out]
            ELSE HexScan(i + 2, Append(out, HexValue(s[i]) * 16 + HexValue(s[i + 1])))
    IN  HexScan(1, <<>>)

(***************************************************************************)
(* Header packing and flags                                                *)
(***************************************************************************)
Err(msg) == [ok |-> FALSE, error |-> msg]

\* a pack_header that masks its arguments without checking their ranges
pack_header_Masking(version, flags_bits, domain16) ==
    [ok |-> TRUE, w |-> <<(version % 16) * 4096 + (flags_bits % 4096), domain16 % H16>>]

\* pack_header: [ok, w] or an error
pack_header(version, flags_bits, domain16) ==
    IF ~(0 <= version /\ version <= 15) THEN Err("version must be 0..15")
    ELSE IF ~(0 <= flags_bits /\ flags_bits < 4096) THEN Err("flags must fit in 12 bits")
    ELSE IF ~(0 <= domain16 /\ domain16 <= 65535) THEN Err("domain16 must be 0..65535")
    ELSE [ok |-> TRUE,
          w |-> <<(version % 16) * 4096 + (flags_bits % 4096), domain16 % H16>>]

\* an unpack_header that takes the flags from 8 bits
unpack_header_ShortFlags(header) == <<header[1] \div 4096, header[1] % 256, header[2]>>

\* unpack_header: <<version, flags, domain>>
unpack_header(header) == <<header[1] \div 4096, header[1] % 4096, header[2]>>

\* flags_to_bits: [ok, bits] or the error of the first unknown flag;
\* flags is None or a sequence of names (a | b is a + b - (a & b))
RECURSIVE FlagsLoop(_, _)
FlagsLoop(fs, bits) ==
    IF fs = <<>> THEN [ok |-> TRUE, bits |-> bits]
    ELSE LET f_up == Upper(Strip(Head(fs)))
         IN  IF f_up \notin DOMAIN FLAG_BITS THEN Err("Unknown flag")
             ELSE FlagsLoop(Tail(fs), bits + Pow2(FLAG_BITS[f_up]) - BitAnd(bits, Pow2(FLAG_BITS[f_up])))

\* a flags_to_bits that sets the bit of the first flag only
flags_to_bits_First(flags) ==
    IF flags.t = "none" \/ flags.v = <<>> THEN [ok |-> TRUE, bits |-> 0]
    ELSE FlagsLoop(<<Head(flags.v)>>, 0)

flags_to_bits(flags) ==
    IF flags.t = "none" \/ flags.v = <<>> THEN [ok |-> TRUE, bits |-> 0]
    ELSE FlagsLoop(flags.v, 0)

\* bits_to_flags: the names of the set bits, in the order of FLAG_BITS
bits_to_flags(bits) ==
    LET IsSet(pos) == (bits \div Pow2(pos)) % 2 = 1
        set == SelectSeq([i \in 1..12 |-> i - 1], IsSet)
    IN  [i \in 1..Len(set) |-> CHOOSE n \in DOMAIN FLAG_BITS : FLAG_BITS[n] = set[i]]

(***************************************************************************)
(* Identifiers                                                             *)
(***************************************************************************)
\* VERBS.get(name.upper(), token_id(name)) and the same for OBJECTS
VerbId(name) == IF Upper(name) \in DOMAIN VERBS THEN u32(VERBS[Upper(name)]) ELSE token_id(name)

ObjectId(name) ==
    IF Upper(name) \in DOMAIN OBJECTS THEN u32(OBJECTS[Upper(name)]) ELSE token_id(name)

\* REV_VERBS.get(id, f"VERB#{id}") and REV_OBJECTS.get(id, f"OBJECT#{id}")
VerbName(id) ==
    IF \E n \in DOMAIN VERBS : u32(VERBS[n]) = id
    THEN CHOOSE n \in DOMAIN VERBS : u32(VERBS[n]) = id
    ELSE <<86, 69, 82, 66, 35>> \o W32Digits(id)

ObjectName(id) ==
    IF \E n \in DOMAIN OBJECTS : u32(OBJECTS[n]) = id
    THEN CHOOSE n \in DOMAIN OBJECTS : u32(OBJECTS[n]) = id
    ELSE <<79, 66, 74, 69, 67, 84, 35>> \o W32Digits(id)

(***************************************************************************)
(* Schemas: ParamSpec, SchemaRegistration, register_trading_schemas        *)
(***************************************************************************)
\* ParamSpec with the defaults of the model class
Param(name, type) ==
    [name |-> name, type |-> type, scale |-> 1000000, min_value |-> PyNone,
     max_value |-> PyNone, required |-> TRUE]

Bounded(spec, lo, hi) == [spec EXCEPT !.min_value = lo, !.max_value = hi]

\* the strings of the source the model names, as sequences of character codes
Names ==
    [strength |-> <<115, 116, 114, 101, 110, 103, 116, 104>>,
     confidence |-> <<99, 111, 110, 102, 105, 100, 101, 110, 99, 101>>,
     token_id |-> <<116, 111, 107, 101, 110, 95, 105, 100>>,
     pool_id |-> <<112, 111, 111, 108, 95, 105, 100>>,
     amount |-> <<97, 109, 111, 117, 110, 116>>,
     slippage |-> <<115, 108, 105, 112, 112, 97, 103, 101>>,
     action_id |-> <<97, 99, 116, 105, 111, 110, 95, 105, 100>>,
     consensus |-> <<99, 111, 110, 115, 101, 110, 115, 117, 115>>,
     priority |-> <<112, 114, 105, 111, 114, 105, 116, 121>>,
     operation |-> <<111, 112, 101, 114, 97, 116, 105, 111, 110>>,
     target |-> <<116, 97, 114, 103, 101, 116>>,
     risk_level |-> <<114, 105, 115, 107, 95, 108, 101, 118, 101, 108>>,
     leverage |-> <<108, 101, 118, 101, 114, 97, 103, 101>>,
     max_drawdown |-> <<109, 97, 120, 95, 100, 114, 97, 119, 100, 111, 119, 110>>,
     SIGNAL |-> <<83, 73, 71, 78, 65, 76>>,
     MARKET |-> <<77, 65, 82, 75, 69, 84>>,
     EXEC |-> <<69, 88, 69, 67>>,
     TRADE |-> <<84, 82, 65, 68, 69>>,
     COORD |-> <<67, 79, 79, 82, 68>>,
     SWARM |-> <<83, 87, 65, 82, 77>>,
     WALLET |-> <<87, 65, 76, 76, 69, 84>>,
     SET |-> <<83, 69, 84>>,
     STRATEGY |-> <<83, 84, 82, 65, 84, 69, 71, 89>>,
     IdRef |-> <<73, 68, 35>>,
     paramA |-> <<112, 97, 114, 97, 109, 65>>,
     paramB |-> <<112, 97, 114, 97, 109, 66>>,
     paramC |-> <<112, 97, 114, 97, 109, 67>>,
     anonymous |-> <<97, 110, 111, 110, 121, 109, 111, 117, 115>>]

SchemaKey(verb, object) == <<VerbId(verb), ObjectId(object)>>

\* the SCHEMAS that register_trading_schemas builds at startup
TradingSchemas ==
    (SchemaKey(Names.SIGNAL, Names.MARKET) :>
        [params |-> << Bounded(Param(Names.strength, "percent"), Float(0, 0), Float(1, 0)),
                       Bounded(Param(Names.confidence, "percent"), Float(0, 0), Float(1, 0)),
                       Param(Names.token_id, "id") >>]) @@
    (SchemaKey(Names.EXEC, Names.TRADE) :>
        [params |-> << Param(Names.pool_id, "id"),
                       Bounded(Param(Names.amount, "amount"), Float(0, 0), PyNone),
                       Bounded(Param(Names.slippage, "int"), Float(0, 0), Float(10000, 0)) >>]) @@
    (SchemaKey(Names.COORD, Names.SWARM) :>
        [params |-> << Param(Names.action_id, "id"),
                       Bounded(Param(Names.consensus, "percent"), Float(0, 0), Float(1, 0)),
                       Bounded(Param(Names.priority, "int"), Float(0, 0), Float(10, 0)) >>]) @@
    (SchemaKey(Names.EXEC, Names.WALLET) :>
        [params |-> << Param(Names.operation, "id"),
                       Param(Names.amount, "amount"),
                       [Param(Names.target, "address") EXCEPT !.required = FALSE] >>]) @@
    (SchemaKey(Names.SET, Names.STRATEGY) :>
        [params |-> << Bounded(Param(Names.risk_level, "percent"), Float(0, 0), Float(1, 0)),
                       Bounded([Param(Names.leverage, "float") EXCEPT !.scale = 100],
                               Float(0, 0), Float(10, 0)),
                       Bounded(Param(Names.max_drawdown, "percent"), Float(0, 0), Float(1, 0)) >>])

(***************************************************************************)
(* NLC9Codec.encode_params / decode_params                                 *)
(***************************************************************************)
\* params.get(name): None for a missing key
ParamGet(d, name) == IF name \in DOMAIN d THEN d[name] ELSE PyNone

\* slots[i] < spec.min_value and slots[i] > spec.max_value, the bound a float
SlotBelow(w, bound) ==
    IF bound.ip < 0 THEN FALSE
    ELSE w[1] < 32768 /\ (W32Nat(w) < bound.ip \/ (W32Nat(w) = bound.ip /\ bound.fp > 0))

\* a comparison that also rejects a slot equal to the bound
SlotAboveOrEqual(w, bound) ==
    IF bound.ip < 0 THEN TRUE
    ELSE w[1] >= 32768 \/ W32Nat(w) >= bound.ip

SlotAbove(w, bound) ==
    IF bound.ip < 0 THEN TRUE
    ELSE w[1] >= 32768 \/ W32Nat(w) > bound.ip

\* spec.scale or 1_000_000
ScaleOf(spec) == IF spec.scale = 0 THEN 1000000 ELSE spec.scale

\* the slot a value is encoded to under a spec; a percent is
\* int(float(val) * 10000) & 0xFFFFFFFF, and int() drops the fraction,
\* towards zero
EncodeTyped(spec, val) ==
    LET trunc_fixed_u32(x, scale) ==
            LET k == FDen \div scale
                q == x.fp \div k
                r == x.fp % k
            IN  W32Add(W32MulNat(u32(x.ip), scale), u32(IF x.ip < 0 /\ r > 0 THEN q + 1 ELSE q))
    IN
    CASE spec.type = "int" -> U32OfInt(PyInt(val))
      [] spec.type = "float" -> to_fixed_u32(PyFloat(val), ScaleOf(spec))
      [] spec.type = "bool" -> IF PyTruth(val) THEN <<0, 1>> ELSE <<0, 0>>
      [] spec.type = "percent" -> trunc_fixed_u32(PyFloat(val), 10000)
      [] spec.type = "amount" -> to_fixed_u32(PyFloat(val), 1000000)
      [] spec.type = "timestamp" -> U32OfInt(PyInt(val))
      [] spec.type \in {"string", "id", "hash", "address"} -> token_id(PyStr(val))
      [] OTHER -> U32OfInt(PyInt(val))

\* the loop over schema.params[:3]: [ok, slots] or the first error; the
\* int() or float() the type of the spec applies to a string raises
\* ValueError unless the string is a literal
RECURSIVE EncodeLoop(_, _, _, _)
EncodeLoop(specs, i, d, slots) ==
    IF i > Min(Len(specs), 3) THEN [ok |-> TRUE, slots |-> slots]
    ELSE LET spec == specs[i]
             val == ParamGet(d, spec.name)
             Converts ==
                 CASE val.t # "str" -> TRUE
                   [] spec.type \in {"float", "percent", "amount"} -> IsFloatLiteral(val.v)
                   [] spec.type \in {"bool", "string", "id", "hash", "address"} -> TRUE
                   [] OTHER -> IsIntLiteral(val.v)
         IN  IF val.t = "none"
             THEN IF spec.required THEN Err("Required parameter missing")
                  ELSE EncodeLoop(specs, i + 1, d, [slots EXCEPT ![i] = W32Zero])
             ELSE IF ~Converts THEN Err("ValueError")
             ELSE LET Within(slot) ==
                          IF spec.min_value.t # "none" /\ SlotBelow(slot, spec.min_value)
                          THEN Err("Parameter below minimum value")
                          ELSE IF spec.max_value.t # "none" /\ SlotAbove(slot, spec.max_value)
                          THEN Err("Parameter above maximum value")
                          ELSE EncodeLoop(specs, i + 1, d, [slots EXCEPT ![i] = slot])
                  IN  Within(EncodeTyped(spec, val))

\* lexicographic order of two names
RECURSIVE SeqLess(_, _)
SeqLess(a, b) ==
    IF b = <<>> THEN FALSE
    ELSE IF a = <<>> THEN TRUE
    ELSE IF Head(a) # Head(b) THEN Head(a) < Head(b)
    ELSE SeqLess(Tail(a), Tail(b))

\* sorted(params.items()): the keys in order
RECURSIVE SortedKeys(_)
SortedKeys(ks) ==
    IF ks = {} THEN <<>>
    ELSE LET m == CHOOSE k \in ks : \A o \in ks \ {k} : SeqLess(k, o)
         IN  <<m>> \o SortedKeys(ks \ {m})

\* the generic encoding of one value
EncodeGeneric(v) ==
    CASE v.t = "bool" -> IF v.v THEN <<0, 1>> ELSE <<0, 0>>
      [] v.t = "float" -> to_fixed_u32(v, 1000000)
      [] v.t = "int" -> U32OfInt(v)
      [] OTHER -> token_id(PyStr(v))

GenericSlots(d) ==
    LET keys == SortedKeys(DOMAIN d)
    IN  [i \in 1..3 |-> IF i <= Len(keys) THEN EncodeGeneric(d[keys[i]]) ELSE W32Zero]

\* an encode_params that fills the slots in the order of the sorted names
encode_params_Sorted(schemas, verb_id, obj_id, params) ==
    IF params.t = "none" \/ DOMAIN params.d = {}
    THEN [ok |-> TRUE, slots |-> <<W32Zero, W32Zero, W32Zero>>]
    ELSE [ok |-> TRUE, slots |-> GenericSlots(params.d)]

\* encode_params: params is None or [t |-> "dict", d |-> name -> value]
encode_params(schemas, verb_id, obj_id, params) ==
    IF params.t = "none" \/ DOMAIN params.d = {}
    THEN [ok |-> TRUE, slots |-> <<W32Zero, W32Zero, W32Zero>>]
    ELSE IF <<verb_id, obj_id>> \in DOMAIN schemas
    THEN EncodeLoop(schemas[<<verb_id, obj_id>>].params, 1, params.d,
                    <<W32Zero, W32Zero, W32Zero>>)
    ELSE [ok |-> TRUE, slots |-> GenericSlots(params.d)]


\* the value a slot is decoded to under a spec
DecodeTyped(spec, val) ==
    CASE spec.type = "int" -> IntW(val)
      [] spec.type = "float" -> from_fixed_u32(val, ScaleOf(spec))
      [] spec.type = "bool" -> Bool(val[2] % 2 = 1)
      [] spec.type = "percent" -> from_fixed_u32(val, 10000)
      [] spec.type = "amount" -> from_fixed_u32(val, 1000000)
      [] spec.type = "timestamp" -> IntW(val)
      [] spec.type \in {"string", "id", "hash", "address"} -> Str(Names.IdRef \o W32Digits(val))
      [] OTHER -> IntW(val)

\* decode_params: the dict name -> value (a later spec of the same name
\* overwrites an earlier one)
decode_params(schemas, verb_id, obj_id, a, b, c) ==
    IF <<verb_id, obj_id>> \in DOMAIN schemas
    THEN LET specs == schemas[<<verb_id, obj_id>>].params
             n == Min(Len(specs), 3)
             slots == <<a, b, c>>
             lastOf(name) == CHOOSE i \in 1..n :
                                /\ specs[i].name = name
                                /\ \A j \in 1..n : specs[j].name = name => j <= i
         IN  [name \in {specs[i].name : i \in 1..n} |->
                 DecodeTyped(specs[lastOf(name)], slots[lastOf(name)])]
    ELSE (Names.paramA :> IntW(a)) @@ (Names.paramB :> IntW(b)) @@ (Names.paramC :> IntW(c))

(***************************************************************************)
(* NLC9Codec.build_message / parse_message                                 *)
(***************************************************************************)
\* `val or default`
PyOr(val, default) == IF PyTruth(val) THEN val ELSE default

\* a checksum over the eight words alone, without the zero word in place of the ninth
FrameChecksumNoPad(first8) == crc32_u32(PackWords(first8))

\* crc32_u32(pack9(first8 + [0]))
FrameChecksum(first8) == crc32_u32(pack9(first8 \o <<W32Zero>>))

\* build_message: t is time.time(), rnd is secrets.randbits(32);
\* [ok, nums, header] or the first error raised
build_message(schemas, r, t, rnd) ==
    LET verb_id == VerbId(r.verb)
        obj_id == ObjectId(r.object)
        fb == flags_to_bits(r.flags)
        hdr == pack_header(VERSION, fb.bits, domain_id16(r.domain))
        Frame(p, ts, corr) ==
            LET Sealed(first8) == first8 \o <<FrameChecksum(first8)>>
            IN  IF ~p.ok THEN p
                ELSE IF ~fb.ok THEN fb
                ELSE IF ~hdr.ok THEN hdr
                ELSE [ok |-> TRUE,
                      nums |-> Sealed(<<hdr.w, verb_id, obj_id,
                                        p.slots[1], p.slots[2], p.slots[3],
                                        U32OfInt(ts), corr>>),
                      header |-> [version |-> VERSION,
                                  flags |-> bits_to_flags(hdr.w[1] % 4096),
                                  domain_id |-> hdr.w[2],
                                  domain |-> r.domain,
                                  verb_id |-> verb_id,
                                  verb |-> VerbName(verb_id),
                                  object_id |-> obj_id,
                                  object |-> ObjectName(obj_id),
                                  priority |-> PyOr(r.priority, IntV(5)),
                                  ttl |-> PyOr(r.ttl, IntV(3600))]]
    IN  Frame(encode_params(schemas, verb_id, obj_id, r.params),
              IF r.timestamp.t # "none" THEN PyInt(r.timestamp) ELSE IntV(t),
              IF r.correlation_id.t # "none" THEN U32OfInt(r.correlation_id) ELSE rnd)

\* the Python ints of a list of words
Ints(ws) == [i \in DOMAIN ws |-> IntW(ws[i])]

\* what parse_message returns for the words u32(n) of its nine numbers;
\* the numbers of the response are the numbers given, int(x) for x in nums
ParseWords(schemas, given, nums) ==
         LET hdr == nums[1]
             v_id == nums[2]
             o_id == nums[3]
             crc == nums[9]
             h == unpack_header(hdr)
             recompute == crc32_u32(pack9(SubSeq(nums, 1, 8) \o <<W32Zero>>))
         IN  [ok |-> TRUE,
              numbers |-> given,
              base64 |-> b64encode(pack9(nums)),
              hex |-> hex(pack9(nums)),
              header |-> [version |-> h[1], flags |-> bits_to_flags(h[2]),
                          domain_id |-> h[3]],
              decoded |-> [verb_id |-> v_id,
                           verb |-> VerbName(v_id),
                           object_id |-> o_id,
                           object |-> ObjectName(o_id),
                           params |-> decode_params(schemas, v_id, o_id,
                                                    nums[4], nums[5], nums[6]),
                           timestamp |-> nums[7],
                           correlation_id |-> nums[8]],
              checksum_ok |-> (recompute = crc),
              has_schema |-> <<v_id, o_id>> \in DOMAIN schemas]

\* a parse_message that raises when the checksum does not match
parse_message_Strict(schemas, nums) ==
    IF Len(nums) # 9 THEN Err("Need exactly 9 numbers")
    ELSE IF ~ParseWords(schemas, nums, [i \in 1..9 |-> U32OfInt(nums[i])]).checksum_ok
    THEN Err("checksum mismatch")
    ELSE ParseWords(schemas, nums, [i \in 1..9 |-> U32OfInt(nums[i])])

\* parse_message: nums is a list of Python ints
parse_message(schemas, nums) ==
    IF Len(nums) # 9 THEN Err("Need exactly 9 numbers")
    ELSE ParseWords(schemas, nums, [i \in 1..9 |-> U32OfInt(nums[i])])

\* decode_message with the validation of its request (fields: a list of
\* ints, a string, a string, or None). DecodeRequest.one_input_required
\* wants exactly one field that is neither None nor empty (422 otherwise);
\* the handler answers with the response of parse_message or the error
\* raised on the way (400)
decode_message(schemas, r) ==
    LET Given(f) == r[f].t # "none" /\ r[f].v # <<>>
        unpack(bytes) ==
            IF ~bytes.ok THEN Err("ValueError")
            ELSE IF Len(bytes.b) # 36 THEN Err("Need exactly 36 bytes")
            ELSE [ok |-> TRUE, nums |-> Ints(unpack9(bytes.b))]
        Parsed(input) == IF ~input.ok THEN input ELSE parse_message(schemas, input.nums)
    IN  IF Cardinality({f \in {"numbers", "base64", "hex"} : Given(f)}) # 1
        THEN Err("Provide exactly one of: numbers, base64, hex")
        ELSE IF Given("numbers") THEN parse_message(schemas, r.numbers.v)
        ELSE IF Given("base64") THEN Parsed(unpack(b64decode(r.base64.v)))
        ELSE Parsed(unpack(fromhex(r.hex.v)))

\* encode_message: the numbers of build_message with their base64 and
\* hex forms, or the error
encode_message(schemas, r, t, rnd) ==
    LET Forms(m, bytes) ==
            [ok |-> TRUE, nums |-> m.nums, header |-> m.header,
             base64 |-> b64encode(bytes), hex |-> hex(bytes)]
        Response(m) == IF ~m.ok THEN m ELSE Forms(m, pack9(m.nums))
    IN  Response(build_message(schemas, r, t, rnd))

(***************************************************************************)
(* Bounds of the model                                                     *)
(***************************************************************************)
MaxTime == 2
MaxMsgs == 3
MaxLimit == 2
MaxSubscribes == 2

\* the arguments the operations are called with: channel names (messages
\* are published to those of QChannels), subscriber ids, message ttls,
\* the ttls of broadcast requests,
\* the client ids "anonymous" and "7", action ids, voters, the threads
\* that call add_consensus_vote at the same time (each named by the voter
\* it votes for), vote values (a JSON string and JSON null), thresholds as
\* exact fractions num/den, who
\* subscribes before a broadcast, the client of /ws and the agent of
\* /ws/agent/{id} with its own channel, the channels of their sessions, how
\* a session handler ends, the values secrets.randbits(32) may
\* return, and the versions, flag bits and domain ids pack_header is given
Inputs ==
    [Channels |-> {"general", "agents"},
     QChannels |-> {"general"},
     Subscribers |-> {"s1", "s2"},
     TTLs |-> {1},
     RequestTtls |-> {0, 1, 3600},
     Clients |-> {Names.anonymous, <<55>>},
     ActionIds |-> {"a1", "a2", "a3"},
     Voters |-> {"v1", "v2", "v3"},
     Threads |-> {"v1", "v2"},
     Votes |-> {"x", NoneVal},
     Thresholds |-> {[num |-> 3, den |-> 5], [num |-> 7, den |-> 10], [num |-> 1, den |-> 2]},
     BroadcastSubscribers |-> {"s1"},
     WsClients |-> {"s1"},
     Agents |-> {"s2"},
     AgentChannel |-> [s2 |-> "agent:s2"],
     SessionChannels |-> {"general", "agents", "agent:s2"},
     Raised |-> {"WebSocketDisconnect", "Exception"},
     RandBits |-> {<<4660, 22136>>, <<65535, 65535>>},
     Versions |-> -1..16,
     FlagBits |-> {-1, 0, 1, 2730, 4095, 4096},
     Domains |-> {-1, 0, 255, 256, 65535, 65536}]

(***************************************************************************)
(* Requests and schema registrations the model draws its inputs from       *)
(***************************************************************************)
Dict(d) == [t |-> "dict", d |-> d]

List(v) == [t |-> "list", v |-> v]

\* EncodeRequest with the defaults of the model class
Request(verb, object, params) ==
    [verb |-> verb, object |-> object, params |-> params, flags |-> PyNone,
     domain |-> PyNone, timestamp |-> PyNone, correlation_id |-> PyNone,
     priority |-> IntV(5), ttl |-> IntV(3600)]

\* a value of params as the model class holds it: JsonVal is
\* Union[str, int, float, bool, None] and the validation of a Union takes
\* the first member that accepts the value; str accepts a str as it is and
\* an int, a float or a bool as its str()
JsonVal(v) == IF v.t \in {"int", "float", "bool"} THEN Str(PyStr(v)) ELSE v

\* EncodeRequest(**body): the request object the handlers receive
EncodeRequest(r) ==
    IF r.params.t = "dict"
    THEN [r EXCEPT !.params = Dict([k \in DOMAIN r.params.d |-> JsonVal(r.params.d[k])])]
    ELSE r

Req ==
    [
     \* {"verb": "EXEC", "object": "WALLET", "params": {"operation": "send", "amount": 1.5}, "timestamp": 5, "correlation_id": 7}
     WalletSend |->
       [Request(<<69, 88, 69, 67>>, <<87, 65, 76, 76, 69, 84>>, Dict((<<111, 112, 101, 114, 97, 116, 105, 111, 110>> :> Str(<<115, 101, 110, 100>>)) @@ (<<97, 109, 111, 117, 110, 116>> :> Float(1, 5000000)))) EXCEPT !.timestamp = IntV(5), !.correlation_id = IntV(7)],
     \* {"verb": "EXEC", "object": "WALLET", "params": {}, "correlation_id": 7}
     WalletEmpty |->
       [Request(<<69, 88, 69, 67>>, <<87, 65, 76, 76, 69, 84>>, Dict(<<>>)) EXCEPT !.correlation_id = IntV(7)],
     \* {"verb": "EXEC", "object": "WALLET", "params": None, "flags": ["ACK", " urgent "], "domain": "example.com"}
     WalletAbsent |->
       [Request(<<69, 88, 69, 67>>, <<87, 65, 76, 76, 69, 84>>, PyNone) EXCEPT !.flags = List(<<<<65, 67, 75>>, <<32, 117, 114, 103, 101, 110, 116, 32>>>>), !.domain = Str(<<101, 120, 97, 109, 112, 108, 101, 46, 99, 111, 109>>)],
     \* {"verb": "EXEC", "object": "WALLET", "params": {"amount": 1.5}}
     WalletNoOperation |->
       Request(<<69, 88, 69, 67>>, <<87, 65, 76, 76, 69, 84>>, Dict((<<97, 109, 111, 117, 110, 116>> :> Float(1, 5000000)))),
     \* {"verb": "EXEC", "object": "WALLET", "params": {"operation": "send", "amount": -1.0}, "timestamp": -1}
     WalletNegative |->
       [Request(<<69, 88, 69, 67>>, <<87, 65, 76, 76, 69, 84>>, Dict((<<111, 112, 101, 114, 97, 116, 105, 111, 110>> :> Str(<<115, 101, 110, 100>>)) @@ (<<97, 109, 111, 117, 110, 116>> :> Float(-1, 0)))) EXCEPT !.timestamp = IntV(-1)],
     \* {"verb": "exec", "object": "wallet", "params": {"operation": "send", "amount": 5000.0, "target": "addr1"}, "priority": 0, "ttl": 0}
     WalletLarge |->
       [Request(<<101, 120, 101, 99>>, <<119, 97, 108, 108, 101, 116>>, Dict((<<111, 112, 101, 114, 97, 116, 105, 111, 110>> :> Str(<<115, 101, 110, 100>>)) @@ (<<97, 109, 111, 117, 110, 116>> :> Float(5000, 0)) @@ (<<116, 97, 114, 103, 101, 116>> :> Str(<<97, 100, 100, 114, 49>>)))) EXCEPT !.priority = IntV(0), !.ttl = IntV(0)],
     \* {"verb": "EXEC", "object": "trade", "params": {"pool_id": "p1", "amount": 2.0000004, "slippage": 50}, "correlation_id": 0}
     Trade |->
       [Request(<<69, 88, 69, 67>>, <<116, 114, 97, 100, 101>>, Dict((<<112, 111, 111, 108, 95, 105, 100>> :> Str(<<112, 49>>)) @@ (<<97, 109, 111, 117, 110, 116>> :> Float(2, 4)) @@ (<<115, 108, 105, 112, 112, 97, 103, 101>> :> IntV(50)))) EXCEPT !.correlation_id = IntV(0)],
     \* {"verb": "EXEC", "object": "trade", "params": {"pool_id": "p1", "amount": 2.0, "slippage": 10001}}
     TradeSlippageHigh |->
       Request(<<69, 88, 69, 67>>, <<116, 114, 97, 100, 101>>, Dict((<<112, 111, 111, 108, 95, 105, 100>> :> Str(<<112, 49>>)) @@ (<<97, 109, 111, 117, 110, 116>> :> Float(2, 0)) @@ (<<115, 108, 105, 112, 112, 97, 103, 101>> :> IntV(10001)))),
     \* {"verb": "EXEC", "object": "trade", "params": {"pool_id": "p1", "amount": -1.0, "slippage": 0}}
     TradeNegative |->
       Request(<<69, 88, 69, 67>>, <<116, 114, 97, 100, 101>>, Dict((<<112, 111, 111, 108, 95, 105, 100>> :> Str(<<112, 49>>)) @@ (<<97, 109, 111, 117, 110, 116>> :> Float(-1, 0)) @@ (<<115, 108, 105, 112, 112, 97, 103, 101>> :> IntV(0)))),
     \* {"verb": "SET", "object": "STRATEGY", "params": {"risk_level": 0.00015, "leverage": 0.1049, "max_drawdown": 0.0}}
     Strategy |->
       Request(<<83, 69, 84>>, <<83, 84, 82, 65, 84, 69, 71, 89>>, Dict((<<114, 105, 115, 107, 95, 108, 101, 118, 101, 108>> :> Float(0, 1500)) @@ (<<108, 101, 118, 101, 114, 97, 103, 101>> :> Float(0, 1049000)) @@ (<<109, 97, 120, 95, 100, 114, 97, 119, 100, 111, 119, 110>> :> Float(0, 0)))),
     \* {"verb": "SET", "object": "STRATEGY", "params": {"risk_level": 0.5, "leverage": 1.0, "max_drawdown": 0.1}}
     StrategyHalf |->
       Request(<<83, 69, 84>>, <<83, 84, 82, 65, 84, 69, 71, 89>>, Dict((<<114, 105, 115, 107, 95, 108, 101, 118, 101, 108>> :> Float(0, 5000000)) @@ (<<108, 101, 118, 101, 114, 97, 103, 101>> :> Float(1, 0)) @@ (<<109, 97, 120, 95, 100, 114, 97, 119, 100, 111, 119, 110>> :> Float(0, 1000000)))),
     \* {"verb": "PING", "object": "AGENT", "params": {"n": -1, "on": True, "at": 1700000000}}
     Ping |->
       Request(<<80, 73, 78, 71>>, <<65, 71, 69, 78, 84>>, Dict((<<110>> :> IntV(-1)) @@ (<<111, 110>> :> Bool(TRUE)) @@ (<<97, 116>> :> IntV(1700000000)))),
     \* {"verb": "PING", "object": "AGENT", "params": {"n": 7, "on": False}, "timestamp": 1700000000}
     PingNoAt |->
       [Request(<<80, 73, 78, 71>>, <<65, 71, 69, 78, 84>>, Dict((<<110>> :> IntV(7)) @@ (<<111, 110>> :> Bool(FALSE)))) EXCEPT !.timestamp = IntV(1700000000)],
     \* {"verb": "ask", "object": "tool", "params": {"tool_id": "summarizer.v1", "temperature": 0.2}}
     AskTool |->
       Request(<<97, 115, 107>>, <<116, 111, 111, 108>>, Dict((<<116, 111, 111, 108, 95, 105, 100>> :> Str(<<115, 117, 109, 109, 97, 114, 105, 122, 101, 114, 46, 118, 49>>)) @@ (<<116, 101, 109, 112, 101, 114, 97, 116, 117, 114, 101>> :> Float(0, 2000000)))),
     \* {"verb": "PING", "object": "AGENT", "params": None, "flags": ["bogus"]}
     BadFlag |->
       [Request(<<80, 73, 78, 71>>, <<65, 71, 69, 78, 84>>, PyNone) EXCEPT !.flags = List(<<<<98, 111, 103, 117, 115>>>>)],
     \* {"verb": "hello", "object": "world", "params": {"b": True, "a": 3, "d": "x", "c": None}}
     Generic |->
       Request(<<104, 101, 108, 108, 111>>, <<119, 111, 114, 108, 100>>, Dict((<<98>> :> Bool(TRUE)) @@ (<<97>> :> IntV(3)) @@ (<<100>> :> Str(<<120>>)) @@ (<<99>> :> PyNone))),
     \* {"verb": " Exec", "object": "WALLET ", "params": {"operation": "send", "amount": 1.5}, "timestamp": 5, "correlation_id": 7}
     WalletSpaced |->
       [Request(<<32, 69, 120, 101, 99>>, <<87, 65, 76, 76, 69, 84, 32>>, Dict((<<111, 112, 101, 114, 97, 116, 105, 111, 110>> :> Str(<<115, 101, 110, 100>>)) @@ (<<97, 109, 111, 117, 110, 116>> :> Float(1, 5000000)))) EXCEPT !.timestamp = IntV(5), !.correlation_id = IntV(7)],
     \* {"verb": " Hello ", "object": "WORLD\t", "params": {"x": 1.5, "B": "y"}}
     GenericSpaced |->
       Request(<<32, 72, 101, 108, 108, 111, 32>>, <<87, 79, 82, 76, 68, 9>>, Dict((<<120>> :> Float(1, 5000000)) @@ (<<66>> :> Str(<<121>>))))
    ]

\* the bodies of POST /schema/register
Reg ==
    [Ping |->
    [verb |-> <<80, 73, 78, 71>>, object |-> <<65, 71, 69, 78, 84>>,
     params |-> << Param(<<110>>, "int"),
                   Param(<<111, 110>>, "bool"),
                   [Param(<<97, 116>>, "timestamp") EXCEPT !.required = FALSE] >>],

     AskTool |->
    [verb |-> <<97, 115, 107>>, object |-> <<116, 111, 111, 108>>,
     params |-> << Param(<<116, 111, 111, 108, 95, 105, 100>>, "id"),
                   Param(<<116, 101, 109, 112, 101, 114, 97, 116, 117, 114, 101>>, "float") >>]]

\* what each specification sends: the requests of POST /encode, of
\* POST /broadcast, those whose frames are decoded, and the registrations
Sent ==
    [Encoded |-> {Req[k] : k \in DOMAIN Req},
     Broadcast |-> {Req.WalletSend, Req.BadFlag},
     Decoded |-> {Req.WalletSend, Req.WalletEmpty, Req.Generic},
     Registered |-> {Reg.Ping, Reg.AskTool}]

\* secrets.randbits(32) is only called for a request without correlation_id
RandomFor(r) == IF r.correlation_id.t = "none" THEN Inputs.RandBits ELSE {W32Zero}

(***************************************************************************)
(* State                                                                   *)
(*   now            time.time()                                            *)
(*   queues         MessageRouter.queues: subscriber -> deque (only the    *)
(*                  keys the defaultdict has created)                      *)
(*   subscriptions  MessageRouter.subscriptions: channel -> set            *)
(*   metrics        MessageRouter.metrics counters                         *)
(*   pubLog, recvLog, popped   history: per subscriber, the messages       *)
(*                  appended to its queue, the messages its drains         *)
(*                  returned, and how many messages its drains popped      *)
(*   sessions       per client id, its WebSocket session: state is "none"  *)
(*                  before the connection, "open" while the handler runs   *)
(*                  and "ended" once it has returned or raised; history:   *)
(*                  the channels the session subscribed the client to,     *)
(*                  and, once ended, how it ended and how many messages    *)
(*                  had been published by then                             *)
(*   rate_limits    MessageRouter.rate_limits: client -> list of           *)
(*                  timestamps (only the keys the defaultdict has created) *)
(*   allowedLog     history: per client, the time of every call the rate   *)
(*                  limiter allowed                                        *)
(*   consensus_votes  MessageRouter.consensus_votes: action -> dict       *)
(*                  voter -> vote, a dict being the sequence of its        *)
(*                  [voter, vote] items in insertion order (only the keys  *)
(*                  the defaultdict has created)                           *)
(*   voteOrder      the keys of consensus_votes in the order the dict      *)
(*                  holds them, the order of their insertion               *)
(*   calls          per thread, the frame of the add_consensus_vote call   *)
(*                  it is in: where it is (pc), its arguments and its      *)
(*                  local `oldest`; pc is "idle" outside a call            *)
(*   SCHEMAS        the schema registry: (verb id, object id) -> schema    *)
(*   req, enc, dec  the last request encoded, what encoding it returned    *)
(*                  and what decoding the returned frame returned ("done"  *)
(*                  is false until there is one)                           *)
(***************************************************************************)
VARIABLES now, queues, subscriptions, metrics, pubLog, recvLog, popped, sessions,
          SCHEMAS, req, enc, dec,
          rate_limits, allowedLog, consensus_votes, voteOrder, calls

vars == <<now, queues, subscriptions, metrics, pubLog, recvLog, popped, sessions,
          SCHEMAS, req, enc, dec,
          rate_limits, allowedLog, consensus_votes, voteOrder, calls>>

queueVars == <<queues, subscriptions, metrics, pubLog, recvLog, popped, sessions>>

rateVars == <<rate_limits, allowedLog>>

voteVars == <<consensus_votes, voteOrder, calls>>

codecVars == <<SCHEMAS, req, enc, dec>>

\* Message (src/main.py:321-335): seq stands for the object's identity.
NewMessage(seq, ts, ttl) == [seq |-> seq, timestamp |-> ts, ttl |-> ttl]

is_expired_Reversed(m, t) == m.timestamp - t > m.ttl

is_expired(m, t) == t - m.timestamp > m.ttl

DequeAppendDropNewest(q, m) ==
    IF Len(q) >= MAX_MESSAGE_QUEUE THEN q ELSE q \o <<m>>

\* deque(maxlen=N).append(m): a full deque drops its left end
DequeAppend(q, m) ==
    IF Len(q) >= MAX_MESSAGE_QUEUE THEN Tail(q) \o <<m>> ELSE q \o <<m>>

\* self.queues[subscriber]: the defaultdict creates an empty deque
QueueOf(qs, s) == IF s \in DOMAIN qs THEN qs[s] ELSE <<>>

\* a subscribe that takes a subscriber out when it is already in
\* an unsubscribe that leaves the subscriber in the channel
unsubscribe_Keep(subs, channel, subscriber) == subs

subscribe_Toggle(subs, channel, subscriber) ==
    [subs EXCEPT ![channel] = IF subscriber \in @ THEN @ \ {subscriber} ELSE @ \cup {subscriber}]

\* MessageRouter.subscribe / unsubscribe: the subscriptions after
\* self.subscriptions[channel].add(subscriber) / .discard(subscriber)
subscribe(subs, channel, subscriber) == [subs EXCEPT ![channel] = @ \cup {subscriber}]

unsubscribe(subs, channel, subscriber) == [subs EXCEPT ![channel] = @ \ {subscriber}]

\* a publish that appends to every queue there is
PublishQueues_All(qs, subs, m) ==
    [s \in (DOMAIN qs) \cup subs |-> DequeAppend(QueueOf(qs, s), m)]

\* MessageRouter.publish: the queues after the fan-out, and the value returned
PublishQueues(qs, subs, m) ==
    [s \in (DOMAIN qs) \cup subs |->
        IF s \in subs THEN DequeAppend(QueueOf(qs, s), m) ELSE qs[s]]

PublishRet(subs) == Cardinality(subs)

RECURSIVE DrainLoopOffByOne(_, _, _, _)
DrainLoopOffByOne(queue, messages, limit, t) ==
    IF queue # <<>> /\ Len(messages) <= limit
    THEN LET msg == Head(queue)
         IN  DrainLoopOffByOne(Tail(queue),
                       IF ~is_expired(msg, t) THEN Append(messages, msg) ELSE messages,
                       limit, t)
    ELSE [queue |-> queue, messages |-> messages]

\* MessageRouter.get_messages: the while loop; .messages is the value returned
RECURSIVE DrainLoop(_, _, _, _)
DrainLoop(queue, messages, limit, t) ==
    IF queue # <<>> /\ Len(messages) < limit
    THEN LET msg == Head(queue)
         IN  DrainLoop(Tail(queue),
                       IF ~is_expired(msg, t) THEN Append(messages, msg) ELSE messages,
                       limit, t)
    ELSE [queue |-> queue, messages |-> messages]

get_messages(qs, subscriber, limit, t) == DrainLoop(QueueOf(qs, subscriber), <<>>, limit, t)

Seqs(msgs) == [i \in 1..Len(msgs) |-> msgs[i].seq]

RouterInit ==
    /\ now = 0
    /\ queues = <<>>
    /\ subscriptions = [c \in Inputs.Channels \cup Inputs.SessionChannels |-> {}]
    /\ metrics = [messages_published |-> 0, subscriptions |-> 0]
    /\ pubLog = [s \in Inputs.Subscribers |-> <<>>]
    /\ recvLog = [s \in Inputs.Subscribers |-> <<>>]
    /\ popped = [s \in Inputs.Subscribers |-> 0]
    /\ sessions = [s \in Inputs.Subscribers |-> [state |-> "none", subscribed |-> {}]]
    /\ rate_limits = <<>>
    /\ allowedLog = [c \in Inputs.Clients |-> <<>>]
    /\ consensus_votes = <<>>
    /\ voteOrder = <<>>
    /\ calls = [t \in Inputs.Threads |-> [pc |-> "idle"]]
    /\ SCHEMAS = TradingSchemas
    /\ req = [done |-> FALSE]
    /\ enc = [done |-> FALSE]
    /\ dec = [done |-> FALSE]

Tick ==
    /\ now < MaxTime
    /\ now' = now + 1
    /\ UNCHANGED <<queueVars, rateVars, voteVars, codecVars>>

Subscribe(channel, subscriber) ==
    /\ metrics.subscriptions < MaxSubscribes
    /\ subscriptions' = subscribe(subscriptions, channel, subscriber)
    /\ metrics' = [metrics EXCEPT !.subscriptions = @ + 1]
    /\ UNCHANGED <<now, sessions, queues, pubLog, recvLog, popped, rateVars, voteVars, codecVars>>

Unsubscribe(channel, subscriber) ==
    /\ subscriptions' = unsubscribe(subscriptions, channel, subscriber)
    /\ UNCHANGED <<now, sessions, queues, metrics, pubLog, recvLog, popped, rateVars, voteVars, codecVars>>

Publish(channel, ttl) ==
    /\ metrics.messages_published < MaxMsgs
    /\ LET m == NewMessage(metrics.messages_published + 1, now, ttl)
           subs == subscriptions[channel]
       IN  /\ queues' = PublishQueues(queues, subs, m)
           /\ metrics' = [metrics EXCEPT !.messages_published = @ + 1]
           /\ pubLog' = [s \in Inputs.Subscribers |->
                           IF s \in subs THEN Append(pubLog[s], m.seq) ELSE pubLog[s]]
    /\ UNCHANGED <<now, sessions, subscriptions, recvLog, popped, rateVars, voteVars, codecVars>>

GetMessages(subscriber, limit) ==
    /\ LET r == get_messages(queues, subscriber, limit, now)
       IN  /\ queues' = IF subscriber \in DOMAIN queues
                        THEN [queues EXCEPT ![subscriber] = r.queue]
                        ELSE queues
           /\ recvLog' = [recvLog EXCEPT ![subscriber] = @ \o Seqs(r.messages)]
           /\ popped' = [popped EXCEPT ![subscriber] =
                            @ + Len(QueueOf(queues, subscriber)) - Len(r.queue)]
    /\ UNCHANGED <<now, sessions, subscriptions, metrics, pubLog, rateVars, voteVars, codecVars>>

Init == RouterInit

(***************************************************************************)
(* SpecQueue: one channel, its subscribers' queues, and the clock          *)
(***************************************************************************)
NextQueue ==
    \/ Tick
    \/ \E c \in Inputs.QChannels, s \in Inputs.Subscribers : Subscribe(c, s)
    \/ \E c \in Inputs.QChannels, s \in Inputs.Subscribers : Unsubscribe(c, s)
    \/ \E c \in Inputs.QChannels, t \in Inputs.TTLs : Publish(c, t)
    \/ \E s \in Inputs.Subscribers, l \in 0..MaxLimit : GetMessages(s, l)

SpecQueue == Init /\ [][NextQueue]_vars

(***************************************************************************)
(* Claims on the subscriber queues                                         *)
(***************************************************************************)
\* the last n elements of a sequence
LastN(sq, n) == SubSeq(sq, Len(sq) - n + 1, Len(sq))

IsSuffix(a, b) == Len(a) <= Len(b) /\ LastN(b, Len(a)) = a

\* C3: a subscriber's queue never holds more than MAX_MESSAGE_QUEUE messages;
\* it is always the tail end of what was published to the subscriber, in
\* publish order; with no drain it holds the last min(N, k) of the k messages
\* published (so messages 2..N+1 after N+1 publishes); and a publish to a full
\* queue yields the old queue without its oldest message plus the new one.
C3_BoundedDropOldest ==
    /\ \A s \in DOMAIN queues :
          /\ Len(queues[s]) <= MAX_MESSAGE_QUEUE
          /\ IsSuffix(Seqs(queues[s]), pubLog[s])
          /\ popped[s] = 0 =>
                Len(queues[s]) = Min(MAX_MESSAGE_QUEUE, Len(pubLog[s]))
    /\ \A c \in Inputs.QChannels, t \in Inputs.TTLs :
          LET m == NewMessage(metrics.messages_published + 1, now, t)
              after == PublishQueues(queues, subscriptions[c], m)
          IN  \A s \in subscriptions[c] :
                 Len(QueueOf(queues, s)) = MAX_MESSAGE_QUEUE =>
                    after[s] = Tail(queues[s]) \o <<m>>

\* C3 witness: N+1 messages were published to a subscriber that never
\* drained, and its queue holds messages 2..N+1.
C3_Witness ==
    \E s \in DOMAIN queues :
        /\ popped[s] = 0
        /\ Len(pubLog[s]) = MAX_MESSAGE_QUEUE + 1
        /\ Seqs(queues[s]) = Tail(pubLog[s])

\* C4: a drain made in any reachable state returns no message whose age
\* exceeds its ttl, and every message it removes from the queue without
\* returning it is such an expired message.
C4_DrainSkipsExpired ==
    \A s \in Inputs.Subscribers, l \in 0..MaxLimit :
        LET q == QueueOf(queues, s)
            r == get_messages(queues, s, l, now)
            gone == SubSeq(q, 1, Len(q) - Len(r.queue))
        IN  /\ \A i \in 1..Len(r.messages) :
                  ~(now - r.messages[i].timestamp > r.messages[i].ttl)
            /\ \A i \in 1..Len(gone) :
                  \/ \E j \in 1..Len(r.messages) : r.messages[j] = gone[i]
                  \/ now - gone[i].timestamp > gone[i].ttl

\* C4 witness: a drain has removed an expired message without returning it.
C4_Witness ==
    \E s \in Inputs.Subscribers : popped[s] > Len(recvLog[s])

\* C5: a drain returns at most `limit` messages; what a subscriber has
\* received over its drains is, in order and without repetition, a
\* subsequence of what was published to it; and a drain leaves the
\* unexpired messages it does not return queued, in their order.
StrictlyIncreasing(sq) == \A i \in 1..Len(sq) - 1 : sq[i] < sq[i + 1]

Elems(sq) == {sq[i] : i \in 1..Len(sq)}

C5_FifoAtMostOnce ==
    /\ \A s \in Inputs.Subscribers :
          /\ StrictlyIncreasing(pubLog[s])
          /\ StrictlyIncreasing(recvLog[s])
          /\ Elems(recvLog[s]) \subseteq Elems(pubLog[s])
    /\ \A s \in Inputs.Subscribers, l \in 0..MaxLimit :
          LET q == QueueOf(queues, s)
              r == get_messages(queues, s, l, now)
          IN  /\ Len(r.messages) <= l
              /\ IsSuffix(r.queue, q)
              /\ \A i \in 1..Len(q) :
                    (~is_expired(q[i], now) /\ q[i] \notin Elems(r.messages))
                        => q[i] \in Elems(r.queue)

\* C5 witness: a subscriber has received two messages over two drains while
\* a later message is still queued.
C5_Witness ==
    \E s \in DOMAIN queues :
        /\ Len(recvLog[s]) = 2
        /\ popped[s] = 2
        /\ queues[s] # <<>>

\* C32: after unsubscribe(channel, s) a publish to the channel adds nothing
\* to the queue of s, and does again once s has subscribed again; the
\* messages queued for s stay queued and a drain returns them as before.
\* In every step taken while s is not subscribed, the queue of s stays as it
\* is or loses messages at its head, to a drain; a step that changes the
\* subscriptions changes no queue.
UnsubscribedThenPublish ==
    \A c \in Inputs.QChannels, s \in Inputs.Subscribers, ttl \in Inputs.TTLs :
        LET left == unsubscribe(subscriptions, c, s)
            m == NewMessage(metrics.messages_published + 1, now, ttl)
            after == PublishQueues(queues, left[c], m)
            back == PublishQueues(queues, subscribe(left, c, s)[c], m)
        IN  /\ s \notin left[c]
            /\ QueueOf(after, s) = QueueOf(queues, s)
            /\ \A l \in 0..MaxLimit :
                  get_messages(after, s, l, now) = get_messages(queues, s, l, now)
            /\ back[s] = DequeAppend(QueueOf(queues, s), m)

UnsubscribedStep ==
    /\ subscriptions' # subscriptions => queues' = queues
    /\ \A c \in Inputs.QChannels, s \in Inputs.Subscribers :
          (s \notin subscriptions[c] /\ s \notin subscriptions'[c]) =>
              /\ IsSuffix(QueueOf(queues', s), QueueOf(queues, s))
              /\ (s \in DOMAIN queues') <=> (s \in DOMAIN queues)

C32_UnsubscribedGetsNothing == []UnsubscribedThenPublish /\ [][UnsubscribedStep]_vars

\* a subscriber that left the channel still has a message queued, while a
\* message published after it left went to the other subscriber only
C32_Witness ==
    \E c \in Inputs.QChannels, s \in DOMAIN queues, o \in Inputs.Subscribers :
        /\ s \notin subscriptions[c] /\ o \in subscriptions[c]
        /\ queues[s] # <<>>
        /\ pubLog[o] # <<>>
        /\ pubLog[o][Len(pubLog[o])] = metrics.messages_published
        /\ metrics.messages_published \notin Elems(pubLog[s])
        /\ metrics.messages_published \notin Elems(Seqs(queues[s]))


(***************************************************************************)
(* Rate limiter                                                            *)
(***************************************************************************)
\* [ts for ts in lst if ts > window_start]
RECURSIVE Newer(_, _)
Newer(lst, window_start) ==
    IF lst = <<>> THEN <<>>
    ELSE IF Head(lst) > window_start
         THEN <<Head(lst)>> \o Newer(Tail(lst), window_start)
         ELSE Newer(Tail(lst), window_start)

\* a check_rate_limit whose window is one second short
check_rate_limit_ShortWindow(rl, client_id, t) ==
    LET kept == Newer(QueueOf(rl, client_id), t - RATE_LIMIT_WINDOW + 1)
        set(v) == [c \in (DOMAIN rl) \cup {client_id} |-> IF c = client_id THEN v ELSE rl[c]]
    IN  IF Len(kept) >= RATE_LIMIT_MESSAGES
        THEN [allowed |-> FALSE, rate_limits |-> set(kept)]
        ELSE [allowed |-> TRUE, rate_limits |-> set(Append(kept, t))]

check_rate_limit_RecordsAlways(rl, client_id, t) ==
    LET kept == Newer(QueueOf(rl, client_id), t - RATE_LIMIT_WINDOW)
        set(v) == [c \in (DOMAIN rl) \cup {client_id} |-> IF c = client_id THEN v ELSE rl[c]]
    IN  [allowed |-> Len(kept) < RATE_LIMIT_MESSAGES, rate_limits |-> set(Append(kept, t))]

\* MessageRouter.check_rate_limit at time t: the value returned and the
\* rate_limits it leaves
check_rate_limit(rl, client_id, t) ==
    LET kept == Newer(QueueOf(rl, client_id), t - RATE_LIMIT_WINDOW)
        set(v) == [c \in (DOMAIN rl) \cup {client_id} |-> IF c = client_id THEN v ELSE rl[c]]
    IN  IF Len(kept) >= RATE_LIMIT_MESSAGES
        THEN [allowed |-> FALSE, rate_limits |-> set(kept)]
        ELSE [allowed |-> TRUE, rate_limits |-> set(Append(kept, t))]

CheckRateLimit(client_id) ==
    /\ LET r == check_rate_limit(rate_limits, client_id, now)
       IN  /\ rate_limits' = r.rate_limits
           /\ allowedLog' = IF r.allowed
                            THEN [allowedLog EXCEPT ![client_id] = Append(@, now)]
                            ELSE allowedLog
    /\ UNCHANGED <<now, queueVars, voteVars, codecVars>>

(***************************************************************************)
(* POST /broadcast                                                         *)
(***************************************************************************)
\* str(req.correlation_id or "anonymous")
ClientId(r) ==
    IF PyTruth(r.correlation_id) THEN PyStr(r.correlation_id) ELSE Names.anonymous

\* what the body of the try block does: the exception it raises, if any,
\* and the rate limits and queues it leaves. The message is the one the
\* router publishes; seq numbers it among the published messages.
BroadcastBody(rl, qs, subs, seq, schemas, r, t, rnd) ==
    LET limit == check_rate_limit(rl, ClientId(r), t)
        built == build_message(schemas, EncodeRequest(r), t, rnd)
        ttl == PyOr(r.ttl, IntV(3600))
        priority == PyOr(r.priority, IntV(5))
        message == [seq |-> seq, timestamp |-> t,
                    ttl |-> IF ttl.neg THEN 0 - W32Nat(ttl.w) ELSE W32Nat(ttl.w),
                    priority |-> W32Nat(priority.w)]
    IN  IF ~limit.allowed
        THEN [raised |-> "HTTPException", status_code |-> 429, allowed |-> FALSE,
              rate_limits |-> limit.rate_limits, queues |-> qs, published |-> FALSE]
        ELSE IF ~built.ok
        THEN [raised |-> "ValueError", status_code |-> 0, allowed |-> TRUE,
              rate_limits |-> limit.rate_limits, queues |-> qs, published |-> FALSE]
        ELSE [raised |-> NoneVal, status_code |-> 200, allowed |-> TRUE,
              rate_limits |-> limit.rate_limits,
              queues |-> PublishQueues(qs, subs, message), published |-> TRUE]

\* broadcast_message: `except Exception` catches whatever the body raised,
\* the HTTPException of the rate limiter included, and raises
\* HTTPException(status_code=400) in its place
ExceptException(body) ==
    IF body.raised # NoneVal THEN [body EXCEPT !.status_code = 400] ELSE body

broadcast_message(rl, qs, subs, seq, schemas, r, t, rnd) ==
    ExceptException(BroadcastBody(rl, qs, subs, seq, schemas, r, t, rnd))

\* POST /broadcast (the push to the WebSocket connections of the channel
\* is outside the model, which has no connections)
Broadcast(r, channel, rnd) ==
    /\ metrics.messages_published < MaxMsgs
    /\ \E out \in {broadcast_message(rate_limits, queues, subscriptions[channel],
                                      metrics.messages_published + 1, SCHEMAS, r, now, rnd)} :
           /\ rate_limits' = out.rate_limits
           /\ allowedLog' = IF out.allowed
                            THEN [allowedLog EXCEPT ![ClientId(r)] = Append(@, now)]
                            ELSE allowedLog
           /\ queues' = out.queues
           /\ metrics' = IF out.published
                         THEN [metrics EXCEPT !.messages_published = @ + 1]
                         ELSE metrics
           /\ pubLog' = [s \in Inputs.Subscribers |->
                           IF out.published /\ s \in subscriptions[channel]
                           THEN Append(pubLog[s], metrics.messages_published + 1)
                           ELSE pubLog[s]]
    /\ UNCHANGED <<now, sessions, subscriptions, recvLog, popped, voteVars, codecVars>>

(***************************************************************************)
(* SpecRate: the rate limiter and the clock                                *)
(***************************************************************************)
NextRate ==
    \/ Tick
    \/ \E c \in Inputs.Clients : CheckRateLimit(c)

SpecRate == Init /\ [][NextRate]_vars

\* C6: a call is allowed exactly when fewer than RATE_LIMIT_MESSAGES of the
\* client's earlier allowed calls are younger than RATE_LIMIT_WINDOW; the
\* stored list holds, inside the window, exactly the allowed calls (a
\* rejected call adds none); the call after RATE_LIMIT_MESSAGES allowed calls
\* in one window is rejected; and a client whose list is full is allowed
\* again once the window has elapsed since its oldest stored call.
C6_SlidingWindow ==
    \A c \in Inputs.Clients :
        LET r == check_rate_limit(rate_limits, c, now)
            recent == Newer(allowedLog[c], now - RATE_LIMIT_WINDOW)
            stored == QueueOf(rate_limits, c)
        IN  /\ r.allowed <=> (Len(recent) < RATE_LIMIT_MESSAGES)
            /\ Newer(stored, now - RATE_LIMIT_WINDOW) = recent
            /\ ~r.allowed => Newer(r.rate_limits[c], now - RATE_LIMIT_WINDOW) = recent
            /\ r.allowed => r.rate_limits[c] = Append(recent, now)
            /\ Len(recent) = RATE_LIMIT_MESSAGES => ~r.allowed
            /\ (Len(stored) = RATE_LIMIT_MESSAGES
                  /\ now - Head(stored) >= RATE_LIMIT_WINDOW) => r.allowed

\* C6 witness: a client that used up a whole window earlier has been allowed
\* again after it elapsed, and has now used up the current window too, so
\* that its next call is rejected.
C6_Witness ==
    \E c \in Inputs.Clients :
        /\ Len(allowedLog[c]) > RATE_LIMIT_MESSAGES
        /\ Len(Newer(allowedLog[c], now - RATE_LIMIT_WINDOW)) = RATE_LIMIT_MESSAGES
        /\ ~check_rate_limit(rate_limits, c, now).allowed


\* C29: for every client and every time t, at most RATE_LIMIT_MESSAGES of
\* the client's allowed calls have a timestamp in (t - RATE_LIMIT_WINDOW, t],
\* and the client's stored list never holds more than RATE_LIMIT_MESSAGES
\* timestamps.
C29_AnyWindowWithinCap ==
    \A c \in Inputs.Clients :
        /\ \A t \in 0..(MaxTime + RATE_LIMIT_WINDOW) :
              Cardinality({i \in 1..Len(allowedLog[c]) :
                              /\ allowedLog[c][i] > t - RATE_LIMIT_WINDOW
                              /\ allowedLog[c][i] <= t}) <= RATE_LIMIT_MESSAGES
        /\ Len(QueueOf(rate_limits, c)) <= RATE_LIMIT_MESSAGES

\* a client has filled two windows one after the other, the second starting
\* the moment the first had elapsed, and its stored list is full
C29_Witness ==
    \E c \in Inputs.Clients :
        /\ Len(allowedLog[c]) = 2 * RATE_LIMIT_MESSAGES
        /\ allowedLog[c][RATE_LIMIT_MESSAGES + 1] - allowedLog[c][1] = RATE_LIMIT_WINDOW
        /\ Len(QueueOf(rate_limits, c)) = RATE_LIMIT_MESSAGES

(***************************************************************************)
(* SpecBroadcast: subscribing, broadcasting and the clock                  *)
(***************************************************************************)
NextBroadcast ==
    \/ Tick
    \/ \E s \in Inputs.BroadcastSubscribers : Subscribe("general", s)
    \/ \E r \in Sent.Broadcast : \E rnd \in RandomFor(r) : Broadcast(r, "general", rnd)

SpecBroadcast == Init /\ [][NextBroadcast]_vars

\* C7: when the rate limiter rejects a broadcast request, the caller gets
\* the too-many-requests rejection (status 429), which is not the outcome
\* of a validation error (status 400), and no queue changes.
C7_RejectionIsDistinct ==
    \A r \in Sent.Broadcast : \A rnd \in RandomFor(r) :
        LET out == broadcast_message(rate_limits, queues, subscriptions["general"],
                                     metrics.messages_published + 1, SCHEMAS, r, now, rnd)
        IN  ~out.allowed => (out.status_code = 429 /\ out.queues = queues)

\* C30: a broadcast request that the rate limiter admits and whose encoding
\* then fails leaves the router as it was: no queue changes, the message is
\* not counted as published, and the client has used none of its quota (the
\* timestamps it has inside the window are the ones it had before).
C30_FailedBroadcastLeavesState ==
    \A r \in Sent.Broadcast : \A rnd \in RandomFor(r) :
        LET out == broadcast_message(rate_limits, queues, subscriptions["general"],
                                     metrics.messages_published + 1, SCHEMAS, r, now, rnd)
            window_start == now - RATE_LIMIT_WINDOW
        IN  (out.allowed /\ out.raised = "ValueError") =>
                /\ out.status_code = 400
                /\ out.queues = queues
                /\ ~out.published
                /\ Newer(QueueOf(out.rate_limits, ClientId(r)), window_start)
                     = Newer(QueueOf(rate_limits, ClientId(r)), window_start)

\* C33: the Message a broadcast publishes and the header info built for its
\* request carry the priority and the ttl of the request, for every priority
\* in 0..10 and every ttl >= 0, and the defaults 5 and 3600 when the request
\* has none.
C33_PriorityAndTtlCarried ==
    \A p \in 0..10, x \in Inputs.RequestTtls, rnd \in RandomFor(Req.WalletSend) :
        LET given == [Req.WalletSend EXCEPT !.priority = IntV(p), !.ttl = IntV(x)]
            absent == [Req.WalletSend EXCEPT !.priority = PyNone, !.ttl = PyNone]
            Carried(r, priority, ttl) ==
                LET out == broadcast_message(rate_limits, queues, subscriptions["general"],
                                             metrics.messages_published + 1, SCHEMAS, r, now, rnd)
                    header == build_message(SCHEMAS, EncodeRequest(r), now, rnd).header
                IN  out.published =>
                        /\ header.priority = IntV(priority) /\ header.ttl = IntV(ttl)
                        /\ \A s \in subscriptions["general"] :
                              LET message == out.queues[s][Len(out.queues[s])]
                              IN  message.priority = priority /\ message.ttl = ttl
        IN  Carried(given, p, x) /\ Carried(absent, 5, 3600)


(***************************************************************************)
(* Consensus votes                                                         *)
(***************************************************************************)
\* d[key] = value on an insertion-ordered dict: an existing key keeps its
\* place, a new key goes last
RECURSIVE DictSet(_, _, _)
DictSet(d, voter, vote) ==
    IF d = <<>> THEN <<[voter |-> voter, vote |-> vote]>>
    ELSE IF Head(d).voter = voter
         THEN <<[voter |-> voter, vote |-> vote]>> \o Tail(d)
         ELSE <<Head(d)>> \o DictSet(Tail(d), voter, vote)

DictKeys(d) == {d[i].voter : i \in 1..Len(d)}

VoteOf(d, voter) == d[CHOOSE i \in 1..Len(d) : d[i].voter = voter].vote

\* min(self.consensus_votes.keys()), the action ids in lexicographic order
MinKey(keys) ==
    LET rank(a) == CASE a = "a1" -> 1 [] a = "a2" -> 2 [] a = "a3" -> 3 [] OTHER -> 4
    IN  CHOOSE k \in keys : \A o \in keys : rank(k) <= rank(o)

\* MessageRouter.add_consensus_vote: the consensus_votes it leaves
add_consensus_vote(cv, action_id, voter_id, vote) ==
    LET kept == IF Cardinality(DOMAIN cv) >= MAX_CONSENSUS_ITEMS
                THEN [a \in (DOMAIN cv) \ {MinKey(DOMAIN cv)} |-> cv[a]]
                ELSE cv
        old == IF action_id \in DOMAIN kept THEN kept[action_id] ELSE <<>>
    IN  [a \in (DOMAIN kept) \cup {action_id} |->
            IF a = action_id THEN DictSet(old, voter_id, vote) ELSE kept[a]]

\* json.dumps(vote, sort_keys=True) and json.loads on the vote values
json_dumps(v) == IF v = NoneVal THEN <<"json", "null">> ELSE <<"json", "str", v>>

json_loads(k) == IF k = <<"json", "null">> THEN NoneVal ELSE k[3]

\* the keys of vote_counts in the order the loop first meets them
RECURSIVE VoteKeys(_, _)
VoteKeys(d, seen) ==
    IF d = <<>> THEN seen
    ELSE LET k == json_dumps(Head(d).vote)
         IN  VoteKeys(Tail(d),
                      IF \E i \in 1..Len(seen) : seen[i] = k THEN seen ELSE Append(seen, k))

\* a loop over vote_counts that takes half of the votes for the threshold
RECURSIVE FirstOver_Half(_, _, _)
FirstOver_Half(keys, d, th) ==
    IF keys = <<>> THEN NoneVal
    ELSE LET count == Cardinality({i \in 1..Len(d) : json_dumps(d[i].vote) = Head(keys)})
         IN  IF count * 2 >= Len(d)
             THEN json_loads(Head(keys))
             ELSE FirstOver_Half(Tail(keys), d, th)

\* the loop over vote_counts: the first key with
\* count / total_votes >= threshold, loaded, or None
RECURSIVE FirstOver(_, _, _)
FirstOver(keys, d, th) ==
    IF keys = <<>> THEN NoneVal
    ELSE LET count == Cardinality({i \in 1..Len(d) : json_dumps(d[i].vote) = Head(keys)})
         IN  IF count * th.den >= th.num * Len(d)
             THEN json_loads(Head(keys))
             ELSE FirstOver(Tail(keys), d, th)

\* a lookup with self.consensus_votes[action_id], which makes the
\* defaultdict create the missing entry
VotesGet_Item(cv, action_id) ==
    [votes |-> IF action_id \in DOMAIN cv THEN cv[action_id] ELSE <<>>,
     consensus_votes |-> [a \in (DOMAIN cv) \cup {action_id} |->
                             IF a \in DOMAIN cv THEN cv[a] ELSE <<>>]]

\* self.consensus_votes.get(action_id, {}): the votes found and the
\* consensus_votes the lookup leaves
VotesGet(cv, action_id) ==
    [votes |-> IF action_id \in DOMAIN cv THEN cv[action_id] ELSE <<>>,
     consensus_votes |-> cv]

\* MessageRouter.check_consensus: the value returned (NoneVal is Python None)
check_consensus(cv, action_id, th) ==
    LET votes == VotesGet(cv, action_id).votes
    IN  IF votes = <<>> THEN NoneVal
        ELSE FirstOver(VoteKeys(votes, <<>>), votes, th)

AddConsensusVote(action_id, voter_id, vote) ==
    /\ consensus_votes' = add_consensus_vote(consensus_votes, action_id, voter_id, vote)
    /\ voteOrder' = LET kept == IF Len(voteOrder) >= MAX_CONSENSUS_ITEMS
                                THEN SelectSeq(voteOrder, LAMBDA k : k # MinKey(DOMAIN consensus_votes))
                                ELSE voteOrder
                    IN  IF action_id \in DOMAIN consensus_votes'
                           /\ \E i \in 1..Len(kept) : kept[i] = action_id
                        THEN kept ELSE Append(kept, action_id)
    /\ UNCHANGED <<now, queueVars, rateVars, codecVars, calls>>

\* check_consensus; dec keeps the last call and what it returned
CheckConsensus(action_id, th) ==
    /\ consensus_votes' = VotesGet(consensus_votes, action_id).consensus_votes
    /\ dec' = [done |-> TRUE, action_id |-> action_id,
               ret |-> check_consensus(consensus_votes, action_id, th)]
    /\ UNCHANGED <<now, queueVars, rateVars, SCHEMAS, req, enc, voteOrder, calls>>

(***************************************************************************)
(* SpecVote: consensus voting                                              *)
(***************************************************************************)
\* every voter votes every value on the first action, which gives the
\* tallies; one voter votes on every action, which fills the table
NextVote ==
    \/ \E v \in Inputs.Voters, x \in Inputs.Votes : AddConsensusVote("a1", v, x)
    \/ \E a \in Inputs.ActionIds : AddConsensusVote(a, "v1", "x")
    \/ \E a \in Inputs.ActionIds, th \in Inputs.Thresholds : CheckConsensus(a, th)

SpecVote == Init /\ [][NextVote]_vars

TallyOf(cv, a) == IF a \in DOMAIN cv THEN cv[a] ELSE <<>>

\* the recorded vote values of a tally whose share meets the threshold
Winners(d, th) ==
    {x \in Inputs.Votes :
        LET n == Cardinality({i \in 1..Len(d) : d[i].vote = x})
        IN  n > 0 /\ n * th.den >= th.num * Len(d)}

\* C8: check_consensus returns a vote value exactly when some
\* recorded value's share of the action's votes is at least the threshold,
\* that value being one of them, and returns none exactly when the action has
\* no votes or no value reaches the threshold.
C8_ConsensusIffThreshold ==
    \A a \in Inputs.ActionIds, th \in Inputs.Thresholds :
        LET d == TallyOf(consensus_votes, a)
            r == check_consensus(consensus_votes, a, th)
        IN  /\ (r = NoneVal) <=> (d = <<>> \/ Winners(d, th) = {})
            /\ Winners(d, th) # {} => r \in Winners(d, th)

\* C9: after add_consensus_vote(action, voter, vote) from any
\* state the action's tally maps voter to vote and keeps every other voter's
\* recorded vote.
C9_AddVoteKeepsOthers ==
    \A a \in Inputs.ActionIds, v \in Inputs.Voters, x \in Inputs.Votes :
        LET d == TallyOf(consensus_votes, a)
            after == add_consensus_vote(consensus_votes, a, v, x)[a]
        IN  /\ v \in DictKeys(after) /\ VoteOf(after, v) = x
            /\ \A w \in DictKeys(d) \ {v} :
                  w \in DictKeys(after) /\ VoteOf(after, w) = VoteOf(d, w)

\* the orders in which the loop of check_consensus can meet the keys
Orders(keys) ==
    {[i \in 1..Len(keys) |-> keys[p[i]]] :
        p \in {q \in [1..Len(keys) -> 1..Len(keys)] :
                  \A i, j \in 1..Len(keys) : q[i] = q[j] => i = j}}

\* C27: for a threshold above 1/2 at most one vote value of an action has
\* a share of the votes that meets it, and check_consensus returns the same
\* result in whatever order its loop meets the vote values.
C27_OneWinnerAboveHalf ==
    \A a \in Inputs.ActionIds, th \in Inputs.Thresholds :
        2 * th.num > th.den =>
            LET d == TallyOf(consensus_votes, a)
            IN  /\ Cardinality(Winners(d, th)) <= 1
                /\ \A order \in Orders(VoteKeys(d, <<>>)) :
                      FirstOver(order, d, th) = check_consensus(consensus_votes, a, th)

\* an action has two votes for one value and one for another, and the
\* first value meets a threshold above 1/2
C27_Witness ==
    \E a \in Inputs.ActionIds, th \in Inputs.Thresholds :
        /\ 2 * th.num > th.den
        /\ Len(TallyOf(consensus_votes, a)) = 3
        /\ Len(VoteKeys(TallyOf(consensus_votes, a), <<>>)) = 2
        /\ Winners(TallyOf(consensus_votes, a), th) # {}

\* C28: after any sequence of add_consensus_vote and check_consensus calls
\* made one after the other, at most MAX_CONSENSUS_ITEMS actions are
\* tracked, and every tracked action has a vote: a check_consensus on an
\* action without votes has created no entry.
C28_TrackedWithinCap ==
    /\ Cardinality(DOMAIN consensus_votes) <= MAX_CONSENSUS_ITEMS
    /\ \A a \in DOMAIN consensus_votes : consensus_votes[a] # <<>>
    /\ DOMAIN consensus_votes = {voteOrder[i] : i \in 1..Len(voteOrder)}

\* the router tracks as many actions as the cap allows, and the last call
\* was a check_consensus on an action that has no votes
C28_Witness ==
    /\ Cardinality(DOMAIN consensus_votes) = MAX_CONSENSUS_ITEMS
    /\ dec.done /\ dec.action_id \notin DOMAIN consensus_votes /\ dec.ret = NoneVal

\* the tracked actions a call of add_consensus_vote(a, v, x) removes: those
\* no longer tracked after it, and a itself when votes of other voters
\* recorded for it are gone
Evicted(cv, a, v, x) ==
    LET after == add_consensus_vote(cv, a, v, x)
    IN  {k \in DOMAIN cv :
            \/ k \notin DOMAIN after
            \/ k = a /\ ~(DictKeys(cv[k]) \ {v} \subseteq DictKeys(after[k]))}

\* C23: add_consensus_vote evicts a tracked action only when the tracked
\* actions, the voted one included, number more than MAX_CONSENSUS_ITEMS,
\* and then it evicts exactly one, the one with the smallest action id.
C23_EvictsWhenExceeded ==
    \A a \in Inputs.ActionIds, v \in Inputs.Voters, x \in Inputs.Votes :
        IF Cardinality((DOMAIN consensus_votes) \cup {a}) > MAX_CONSENSUS_ITEMS
        THEN Evicted(consensus_votes, a, v, x) = {MinKey(DOMAIN consensus_votes)}
        ELSE Evicted(consensus_votes, a, v, x) = {}

\* C24: when a vote makes the tracked actions number more than
\* MAX_CONSENSUS_ITEMS, the action evicted is the one inserted earliest
\* among the tracked ones, the first key of consensus_votes.
C24_EvictsOldestInserted ==
    \A a \in Inputs.ActionIds, v \in Inputs.Voters, x \in Inputs.Votes :
        Cardinality((DOMAIN consensus_votes) \cup {a}) > MAX_CONSENSUS_ITEMS
            => Evicted(consensus_votes, a, v, x) = {Head(voteOrder)}

(***************************************************************************)
(* SpecCodec: schema registration, encoding, decoding, and the clock       *)
(***************************************************************************)
\* register_schema: the last registration of a pair replaces the earlier one
register_schema(schemas, schema) ==
    LET key == SchemaKey(schema.verb, schema.object)
    IN  [k \in (DOMAIN schemas) \cup {key} |->
            IF k = key THEN [params |-> schema.params] ELSE schemas[k]]

\* POST /schema/register; the last encoding and decoding are forgotten, so
\* that req, enc and dec always belong to the registry of the state
RegisterSchema(schema) ==
    /\ SCHEMAS' = register_schema(SCHEMAS, schema)
    /\ req' = [done |-> FALSE]
    /\ enc' = [done |-> FALSE]
    /\ dec' = [done |-> FALSE]
    /\ UNCHANGED <<now, queueVars, rateVars, voteVars>>

WithDone(r) == [f \in (DOMAIN r) \cup {"done"} |-> IF f = "done" THEN TRUE ELSE r[f]]

\* POST /encode
Encode(r, rnd) ==
    /\ req' = WithDone(r)
    /\ \E coerced \in {EncodeRequest(r)} :
           \E out \in {encode_message(SCHEMAS, coerced, now, rnd)} : enc' = WithDone(out)
    /\ dec' = [done |-> FALSE]
    /\ UNCHANGED <<now, queueVars, rateVars, voteVars, SCHEMAS>>

\* POST /decode of the numbers the last encoding returned
Decode ==
    /\ enc.done /\ enc.ok
    /\ \E out \in {decode_message(SCHEMAS, [numbers |-> List(Ints(enc.nums)),
                                               base64 |-> PyNone, hex |-> PyNone])} :
           dec' = WithDone(out)
    /\ UNCHANGED <<now, queueVars, rateVars, voteVars, SCHEMAS, req, enc>>

NextCodec ==
    \/ Tick
    \/ \E schema \in Sent.Registered : RegisterSchema(schema)
    \/ \E r \in Sent.Encoded : \E rnd \in RandomFor(r) : Encode(r, rnd)
    \/ Decode

SpecCodec == Init /\ [][NextCodec]_vars

(***************************************************************************)
(* Claims about the codec (SpecCodec)                                      *)
(***************************************************************************)
\* C1: every frame that build_message returns for an accepted request has
\* as its ninth word the CRC32 of the first eight words packed big-endian
\* and followed by a zero ninth word, and decoding the frame as it was
\* returned reports checksum_ok = true.
C1_ChecksumOfFirstEight ==
    /\ (enc.done /\ enc.ok) =>
          /\ Len(enc.nums) = 9
          /\ enc.nums[9] = crc32_u32(PackWords(SubSeq(enc.nums, 1, 8) \o <<W32Zero>>))
    /\ dec.done => (dec.ok /\ dec.numbers = Ints(enc.nums) /\ dec.checksum_ok)

\* a frame with non-zero parameter slots has been encoded and decoded
C1_Witness ==
    /\ enc.done /\ enc.ok /\ dec.done /\ dec.checksum_ok
    /\ enc.nums[4] # W32Zero /\ enc.nums[5] # W32Zero

\* |x - y| <= tol / FDen for two floats
Close(x, y, tol) ==
    /\ x.ip - y.ip \in {-1, 0, 1}
    /\ (x.ip - y.ip) * FDen + x.fp - y.fp <= tol
    /\ (y.ip - x.ip) * FDen + y.fp - x.fp <= tol

\* whether the value y decoded for a spec equals the value x supplied for
\* it: exactly for int, bool and timestamp, within one unit of the fixed
\* point for float, percent and amount; the other types are not reversible
RoundTrips(spec, x, y) ==
    CASE spec.type \in {"int", "timestamp"} -> x.t = "int" => y = x
      [] spec.type = "bool" -> x.t = "bool" => y = x
      [] spec.type = "float" ->
            x.t \in {"int", "float"} => Close(PyFloat(x), y, FDen \div ScaleOf(spec))
      [] spec.type = "percent" ->
            x.t \in {"int", "float"} => Close(PyFloat(x), y, FDen \div 10000)
      [] spec.type = "amount" ->
            x.t \in {"int", "float"} => Close(PyFloat(x), y, FDen \div 1000000)
      [] OTHER -> TRUE

\* the specs of the schema registered for the request, none without a schema
SpecsFor(r) ==
    IF SchemaKey(r.verb, r.object) \in DOMAIN SCHEMAS
    THEN LET specs == SCHEMAS[SchemaKey(r.verb, r.object)].params
         IN  SubSeq(specs, 1, Min(Len(specs), 3))
    ELSE <<>>

\* the value the request supplies for a name, None when it supplies none
Supplied(r, name) == IF r.params.t = "dict" THEN ParamGet(r.params.d, name) ELSE PyNone

\* C2: for every parameter set that encode accepts under a registered
\* schema, the decoded parameters equal the supplied ones for every
\* parameter of a reversible type.
C2_RoundTrip ==
    (req.done /\ enc.done /\ enc.ok /\ dec.done) =>
        \A i \in 1..Len(SpecsFor(req)) :
            LET spec == SpecsFor(req)[i]
                x == Supplied(req, spec.name)
            IN  x.t # "none" => RoundTrips(spec, x, dec.decoded.params[spec.name])

\* C10: for every request whose pair has a registered schema, an empty or
\* absent parameter map included, encoding fails whenever a required spec
\* has no supplied value, and an absent optional spec encodes its slot as 0.
C10_RequiredOrZero ==
    (req.done /\ enc.done) =>
        /\ (\E i \in 1..Len(SpecsFor(req)) :
               /\ SpecsFor(req)[i].required
               /\ Supplied(req, SpecsFor(req)[i].name).t = "none") => ~enc.ok
        /\ enc.ok =>
              \A i \in 1..Len(SpecsFor(req)) :
                  (/\ ~SpecsFor(req)[i].required
                   /\ Supplied(req, SpecsFor(req)[i].name).t = "none")
                      => enc.nums[3 + i] = W32Zero

\* the encoded slot w, read as an unsigned 32-bit integer, against a bound
\* given as a decimal
WordBelow(w, bound) ==
    bound.ip >= 0 /\ w[1] = 0 /\ (w[2] < bound.ip \/ (w[2] = bound.ip /\ bound.fp > 0))

WordAbove(w, bound) ==
    bound.ip < 0 \/ w[1] > 0 \/ w[2] > bound.ip

\* the slot the supplied value x encodes to lies outside the bounds of spec
EncodedOutside(spec, x) ==
    \/ spec.min_value.t # "none" /\ WordBelow(EncodeTyped(spec, JsonVal(x)), spec.min_value)
    \/ spec.max_value.t # "none" /\ WordAbove(EncodeTyped(spec, JsonVal(x)), spec.max_value)

\* the supplied number x itself, before any scaling, lies within the bounds
InputWithin(spec, x) ==
    /\ x.t \in {"int", "float"}
    /\ spec.min_value.t # "none" =>
          \/ PyFloat(x).ip > spec.min_value.ip
          \/ PyFloat(x).ip = spec.min_value.ip /\ PyFloat(x).fp >= spec.min_value.fp
    /\ spec.max_value.t # "none" =>
          \/ PyFloat(x).ip < spec.max_value.ip
          \/ PyFloat(x).ip = spec.max_value.ip /\ PyFloat(x).fp <= spec.max_value.fp

\* the request has a schema, a non-empty parameter map and a value for
\* every required spec, so that only a bound can make its encoding fail
OnlyBoundsCanFail(r) ==
    /\ SpecsFor(r) # <<>>
    /\ r.params.t = "dict" /\ DOMAIN r.params.d # {}
    /\ r.flags.t = "none"
    /\ \A i \in 1..Len(SpecsFor(r)) :
          SpecsFor(r)[i].required => Supplied(r, SpecsFor(r)[i].name).t # "none"

\* C11: under a registered schema the bounds are compared with the encoded
\* slot (scaled and masked to 32 bits), not with the supplied value: a
\* request that supplies every required parameter is rejected exactly when
\* the encoded slot of some supplied parameter is below min_value or above
\* max_value.
C11_BoundsOnEncodedValue ==
    (req.done /\ enc.done /\ OnlyBoundsCanFail(req)) =>
        (~enc.ok <=> \E i \in 1..Len(SpecsFor(req)) :
                        /\ Supplied(req, SpecsFor(req)[i].name).t # "none"
                        /\ EncodedOutside(SpecsFor(req)[i], Supplied(req, SpecsFor(req)[i].name)))

\* a request was rejected for a parameter whose supplied value is within
\* the bounds while its encoded slot is not
C11_Witness ==
    /\ req.done /\ enc.done /\ ~enc.ok /\ OnlyBoundsCanFail(req)
    /\ \E i \in 1..Len(SpecsFor(req)) :
          /\ InputWithin(SpecsFor(req)[i], Supplied(req, SpecsFor(req)[i].name))
          /\ EncodedOutside(SpecsFor(req)[i], Supplied(req, SpecsFor(req)[i].name))

\* the identifier a name resolves to when the lookup ignores case and
\* surrounding whitespace: the id seeded for the trimmed upper-case name,
\* else the CRC32 of the trimmed lower-case name
Resolved(table, name) ==
    IF Upper(Strip(name)) \in DOMAIN table
    THEN u32(table[Upper(Strip(name))])
    ELSE crc32_u32(Lower(Strip(name)))

\* C12: the verb id and the object id of every encoded frame are the ids
\* the names of the request resolve to regardless of letter case and of
\* leading and trailing whitespace: the seeded id of a seeded name, the
\* CRC32 of the trimmed lower-case form of any other name.
C12_NameResolution ==
    (req.done /\ enc.done /\ enc.ok) =>
        /\ enc.nums[2] = Resolved(VERBS, req.verb)
        /\ enc.nums[3] = Resolved(OBJECTS, req.object)

\* the word the generic encoding is to give a JSON value: 0 or 1 for a
\* boolean, the value times 1,000,000 for a float, the identifier hash of
\* the string form for anything else
GenericWord(v) ==
    CASE v.t = "bool" -> IF v.v THEN <<0, 1>> ELSE W32Zero
      [] v.t = "float" -> to_fixed_u32(v, 1000000)
      [] OTHER -> token_id(PyStr(v))

\* the i-th name of the request's params in lexicographic order
NameAt(i) ==
    CHOOSE k \in DOMAIN req.params.d :
        Cardinality({o \in DOMAIN req.params.d : SeqLess(o, k)}) = i - 1

\* C20: without a schema for the pair, the first three parameters in
\* lexicographic name order fill the three parameter words: a boolean as 0
\* or 1, a float as fixed-point times 1,000,000, any other value as the
\* identifier hash of its string form; the words left over are 0.
C20_GenericEncoding ==
    (/\ req.done /\ enc.done /\ enc.ok
     /\ <<enc.nums[2], enc.nums[3]>> \notin DOMAIN SCHEMAS
     /\ req.params.t = "dict") =>
        \A i \in 1..3 :
            enc.nums[3 + i] = IF i <= Cardinality(DOMAIN req.params.d)
                              THEN GenericWord(req.params.d[NameAt(i)])
                              ELSE W32Zero

\* C25: under a registered schema the value supplied for the i-th ParamSpec
\* is encoded, by the type of that spec, into the i-th parameter word, a
\* spec without a supplied value leaves its word zero, and names that are
\* not in the schema do not change the words (one more such name, or all
\* such names left out, gives the same three words); tool_id and temperature
\* 0.2 under [tool_id: id, temperature: float] give param_b = 200000.
C25_PositionalParams ==
    (/\ req.done /\ enc.done /\ enc.ok /\ SpecsFor(req) # <<>>
     /\ req.params.t = "dict" /\ DOMAIN req.params.d # {}) =>
        LET specs == SpecsFor(req)
            given == EncodeRequest(req).params.d
            named == {k \in DOMAIN given : \E i \in 1..Min(Len(specs), 3) : specs[i].name = k}
            words(d) == encode_params(SCHEMAS, enc.nums[2], enc.nums[3], Dict(d))
        IN  /\ \A i \in 1..3 :
                  enc.nums[3 + i] =
                      IF i <= Len(specs) /\ Supplied(req, specs[i].name).t # "none"
                      THEN EncodeTyped(specs[i], JsonVal(Supplied(req, specs[i].name)))
                      ELSE W32Zero
            /\ words(given @@ (Names.paramA :> Str(<<120>>)))
                  = [ok |-> TRUE, slots |-> SubSeq(enc.nums, 4, 6)]
            /\ words([k \in named |-> given[k]])
                  = [ok |-> TRUE, slots |-> SubSeq(enc.nums, 4, 6)]
            /\ req.params = Req.AskTool.params => enc.nums[5] = <<3, 3392>>

\* the request with tool_id and temperature 0.2 was encoded under its
\* registered schema, the name that sorts last filling the first word
C25_Witness ==
    /\ req.done /\ enc.done /\ enc.ok /\ SpecsFor(req) = Reg.AskTool.params
    /\ req.params = Req.AskTool.params
    /\ enc.nums[4] = token_id(Supplied(req, Reg.AskTool.params[1].name).v)
    /\ enc.nums[5] = <<3, 3392>>

\* the flag names a request asks for, whatever their case and surrounding
\* blanks
Requested(r) ==
    IF r.flags.t = "none" THEN {}
    ELSE {Upper(Strip(r.flags.v[i])) : i \in 1..Len(r.flags.v)}

\* the flags of a request in reverse order, each in lower case, followed by
\* the flags as they were sent: every name twice
Reordered(r) ==
    [i \in 1..(2 * Len(r.flags.v)) |->
        IF i <= Len(r.flags.v) THEN Lower(r.flags.v[Len(r.flags.v) + 1 - i])
        ELSE r.flags.v[i - Len(r.flags.v)]]

\* C26: the first word of every encoded frame unpacks to the version
\* constant, to the bits of exactly the flag names the request asks for (the
\* same bits for the names in another order, in another case and repeated)
\* and to the low 16 bits of the CRC32 of the trimmed lower-case domain, 0
\* for an empty or absent domain; a request with a name that is not a flag
\* is rejected and has no frame.
C26_HeaderOfFrame ==
    (req.done /\ enc.done) =>
        /\ ~(Requested(req) \subseteq DOMAIN FLAG_BITS) => (~enc.ok /\ "nums" \notin DOMAIN enc)
        /\ enc.ok =>
              LET h == unpack_header(enc.nums[1])
              IN  /\ h[1] = VERSION
                  /\ {n \in DOMAIN FLAG_BITS : (h[2] \div Pow2(FLAG_BITS[n])) % 2 = 1}
                        = Requested(req)
                  /\ req.flags.t # "none" =>
                        flags_to_bits(List(Reordered(req))) = [ok |-> TRUE, bits |-> h[2]]
                  /\ h[3] = IF req.domain.t = "none" \/ req.domain.v = <<>> THEN 0
                            ELSE crc32_u32(Lower(Strip(req.domain.v)))[2]

\* a frame was encoded for a request with two flags, one of them in lower
\* case between blanks, and a domain
C26_Witness ==
    /\ req.done /\ enc.done /\ enc.ok
    /\ Cardinality(Requested(req)) = 2
    /\ \E i \in 1..Len(req.flags.v) : req.flags.v[i] \notin DOMAIN FLAG_BITS
    /\ unpack_header(enc.nums[1])[3] # 0

(***************************************************************************)
(* SpecHeader: pack_header and unpack_header on their own                  *)
(***************************************************************************)
\* pack_header(version, flags_bits, domain16) and, when it returns,
\* unpack_header of the word returned
PackHeader(version, flags_bits, domain16) ==
    /\ req' = [done |-> TRUE, version |-> version, flags_bits |-> flags_bits,
               domain16 |-> domain16]
    /\ enc' = WithDone(pack_header(version, flags_bits, domain16))
    /\ dec' = IF pack_header(version, flags_bits, domain16).ok
              THEN [done |-> TRUE,
                    fields |-> unpack_header(pack_header(version, flags_bits, domain16).w)]
              ELSE [done |-> FALSE]
    /\ UNCHANGED <<now, queueVars, rateVars, voteVars, SCHEMAS>>

NextHeader ==
    \E version \in Inputs.Versions, flags_bits \in Inputs.FlagBits, domain16 \in Inputs.Domains :
        PackHeader(version, flags_bits, domain16)

SpecHeader == Init /\ [][NextHeader]_vars

\* the arguments of the last pack_header are in their ranges
HeaderInRange ==
    /\ req.version \in 0..15
    /\ req.flags_bits \in 0..4095
    /\ req.domain16 \in 0..65535

\* C13: for a version in 0..15, flags in 0..4095 and a domain in 0..65535
\* pack_header returns a word with the version in its top 4 bits, the flags
\* in the next 12 and the domain in the low 16, and unpack_header of that
\* word gives back the three values.
C13_HeaderRoundTrip ==
    (req.done /\ HeaderInRange) =>
        /\ enc.ok /\ dec.done
        /\ enc.w = <<req.version * 4096 + req.flags_bits, req.domain16>>
        /\ dec.fields = <<req.version, req.flags_bits, req.domain16>>

\* a header with every field non-zero and the flags above 8 bits was packed
C13_Witness ==
    /\ req.done /\ HeaderInRange /\ dec.done
    /\ req.version > 0 /\ req.flags_bits > 255 /\ req.domain16 > 255

\* C14: pack_header fails whenever the version is outside 0..15, the flags
\* are outside 0..4095 or the domain is outside 0..65535; it returns a
\* header only for arguments in their ranges.
C14_HeaderRejectsOutOfRange ==
    req.done => (enc.ok <=> HeaderInRange)

\* pack_header was given a version, flags or a domain outside the range
\* and failed
C14_Witness ==
    /\ req.done /\ ~HeaderInRange /\ ~enc.ok

(***************************************************************************)
(* SpecDecode: frames are encoded, then decoded as returned or altered, in *)
(* any of the three forms of a DecodeRequest                               *)
(***************************************************************************)
\* the frame with bit b (0 the lowest) of word i flipped
Flip(frame, i, b) ==
    LET h == IF b < 16 THEN 2 ELSE 1
        p == Pow2(IF b < 16 THEN b ELSE b - 16)
    IN  [frame EXCEPT ![i][h] = IF BitAnd(@, p) = 0 THEN @ + p ELSE @ - p]

\* what a client may send instead of the frame. As numbers: one bit
\* flipped anywhere, a prefix of the frame, the frame with one more word,
\* nine zero words, the frame itself. As text or as signed numbers: a few
\* of these
Alterations(form, frame) ==
    IF form = "numbers"
    THEN {Flip(frame, i, b) : i \in 1..9, b \in 0..31}
             \cup {SubSeq(frame, 1, n) : n \in 0..8}
             \cup {frame, frame \o <<W32Zero>>, [i \in 1..9 |-> W32Zero]}
    ELSE {frame, Flip(frame, 1, 31), Flip(frame, 9, 0), Flip(frame, 9, 31),
          SubSeq(frame, 1, 8), frame \o <<W32Zero>>, <<>>}

\* the DecodeRequest that carries the words in the given form; in the
\* form "signed" the client holds the words as signed 32-bit integers and
\* sends w - 2^32 for a word with the top bit set
DecodeRequest(form, words) ==
    LET SignedInt(w) ==
            IF w[1] >= 32768
            THEN [t |-> "int", neg |-> TRUE, w |-> W32Add(W32Xor(w, <<65535, 65535>>), <<0, 1>>)]
            ELSE IntW(w)
    IN  [numbers |-> IF form = "numbers" THEN List(Ints(words))
                     ELSE IF form = "signed" THEN List([i \in DOMAIN words |-> SignedInt(words[i])])
                     ELSE PyNone,
         base64 |-> IF form = "base64" THEN Str(b64encode(PackWords(words))) ELSE PyNone,
         hex |-> IF form = "hex" THEN Str(hex(PackWords(words))) ELSE PyNone]

\* POST /decode of words in one of the forms, after an encoding returned a
\* frame; req keeps the form and the words of the request. decode_message
\* keeps no state, so the frame of each encoding is decoded once, in one
\* of its forms and alterations
DecodeWords(form, words) ==
    /\ enc.done /\ enc.ok /\ ~dec.done
    /\ req' = [done |-> TRUE, form |-> form, words |-> words, frame |-> enc.nums]
    /\ \E r \in {DecodeRequest(form, words)} :
           \E out \in {decode_message(SCHEMAS, r)} : dec' = WithDone(out)
    /\ UNCHANGED <<now, queueVars, rateVars, voteVars, SCHEMAS, enc>>

NextDecode ==
    \/ \E r \in Sent.Decoded : \E rnd \in RandomFor(r) : Encode(r, rnd)
    \/ \E form \in {"numbers", "signed", "base64", "hex"} :
           \E words \in IF enc.done /\ enc.ok THEN Alterations(form, enc.nums) ELSE {} :
               DecodeWords(form, words)

SpecDecode == Init /\ [][NextDecode]_vars

\* C15: a decode request of nine words, in any form, is answered, with
\* checksum_ok true exactly when the ninth word is the CRC32 of the first
\* eight followed by a zero word; a request of another number of words is
\* rejected.
C15_DecodeReportsChecksum ==
    dec.done =>
        IF Len(req.words) = 9
        THEN /\ dec.ok
             /\ dec.checksum_ok <=>
                  (req.words[9] = crc32_u32(PackWords(SubSeq(req.words, 1, 8) \o <<W32Zero>>)))
        ELSE ~dec.ok

\* nine words whose ninth is not the checksum were decoded and answered
C15_Witness ==
    /\ dec.done /\ Len(req.words) = 9 /\ req.words[9] # req.frame[9]
    /\ SubSeq(req.words, 1, 8) = SubSeq(req.frame, 1, 8)
    /\ dec.ok /\ ~dec.checksum_ok

\* the words given are the frame with one bit of one of its first eight
\* words flipped
OneBitFlipped ==
    /\ Len(req.words) = 9
    /\ \E i \in 1..8 : \E b \in 0..31 : req.words = Flip(req.frame, i, b)

\* C16: the numbers, base64 and hex of every encode response and of every
\* decode response denote the same nine 32-bit words in the same order.
C16_FormsAgree ==
    /\ (enc.done /\ enc.ok) =>
          /\ fromhex(enc.hex) = [ok |-> TRUE, b |-> PackWords(enc.nums)]
          /\ b64decode(enc.base64) = [ok |-> TRUE, b |-> PackWords(enc.nums)]
    /\ (dec.done /\ dec.ok) =>
          /\ fromhex(dec.hex).ok /\ Len(fromhex(dec.hex).b) = 36
          /\ b64decode(dec.base64) = fromhex(dec.hex)
          /\ dec.numbers = Ints(unpack9(fromhex(dec.hex).b))

\* C17: decoding a frame with one bit flipped in one of its first eight
\* words reports checksum_ok false, and decoding the frame as it was
\* returned recomputes the checksum the encoding computed.
C17_BitFlipDetected ==
    dec.done =>
        /\ OneBitFlipped => (dec.ok /\ ~dec.checksum_ok)
        /\ req.words = req.frame => (dec.ok /\ dec.checksum_ok)

\* the top bit of the header word of a frame was flipped and the frame
\* decoded
C17_Witness ==
    /\ dec.done /\ dec.ok /\ Len(req.words) = 9
    /\ req.words = Flip(req.frame, 1, 31)

(***************************************************************************)
(* SpecRouter: subscribe, unsubscribe and publish on two channels; req     *)
(* keeps the call, whether it repeats the call before it, how many of the  *)
(* calls so far were publish calls, and the router before the call; enc    *)
(* keeps what the call returned                                            *)
(***************************************************************************)
RouterCall(op, channel, subscriber) ==
    /\ op = "subscribe" => metrics.subscriptions < MaxSubscribes
    /\ op = "publish" => metrics.messages_published < MaxMsgs
    /\ subscriptions' =
          CASE op = "subscribe" -> subscribe(subscriptions, channel, subscriber)
            [] op = "unsubscribe" -> unsubscribe(subscriptions, channel, subscriber)
            [] OTHER -> subscriptions
    /\ metrics' =
          CASE op = "subscribe" -> [metrics EXCEPT !.subscriptions = @ + 1]
            [] op = "publish" -> [metrics EXCEPT !.messages_published = @ + 1]
            [] OTHER -> metrics
    /\ \E m \in {NewMessage(metrics.messages_published + 1, now, 1)} :
          /\ queues' = IF op = "publish"
                       THEN PublishQueues(queues, subscriptions[channel], m)
                       ELSE queues
          /\ pubLog' = [s \in Inputs.Subscribers |->
                          IF op = "publish" /\ s \in subscriptions[channel]
                          THEN Append(pubLog[s], m.seq) ELSE pubLog[s]]
    /\ req' = [done |-> TRUE, op |-> op, channel |-> channel, subscriber |-> subscriber,
               again |-> /\ req.done /\ req.op = op
                         /\ req.channel = channel /\ req.subscriber = subscriber,
               publishes |-> (IF req.done THEN req.publishes ELSE 0)
                                + (IF op = "publish" THEN 1 ELSE 0),
               before |-> [queues |-> queues, subscriptions |-> subscriptions,
                           metrics |-> metrics]]
    /\ enc' = [done |-> TRUE,
               ret |-> IF op = "publish" THEN PublishRet(subscriptions[channel]) ELSE 0]
    /\ UNCHANGED <<now, sessions, recvLog, popped, rateVars, voteVars, SCHEMAS, dec>>

NextRouter ==
    \/ \E c \in Inputs.Channels, s \in Inputs.Subscribers : RouterCall("subscribe", c, s)
    \/ \E c \in Inputs.Channels, s \in Inputs.Subscribers : RouterCall("unsubscribe", c, s)
    \/ \E c \in Inputs.Channels : RouterCall("publish", c, NoneVal)

SpecRouter == Init /\ [][NextRouter]_vars

\* C18: publish(channel, m) appends m to the queue of every subscriber the
\* channel had, leaves the queues of all others as they were, and returns
\* the number of those subscribers; with none it returns 0 and changes no
\* queue.
C18_PublishFanOut ==
    (req.done /\ req.op = "publish") =>
        LET subs == req.before.subscriptions[req.channel]
            old(s) == IF s \in DOMAIN req.before.queues THEN req.before.queues[s] ELSE <<>>
        IN  /\ enc.ret = Cardinality(subs)
            /\ subs = {} => (enc.ret = 0 /\ queues = req.before.queues)
            /\ DOMAIN queues = (DOMAIN req.before.queues) \cup subs
            /\ \A s \in DOMAIN queues :
                  IF s \in subs
                  THEN /\ queues[s][Len(queues[s])].seq = metrics.messages_published
                       /\ SubSeq(queues[s], 1, Len(queues[s]) - 1)
                             = (IF Len(old(s)) >= MAX_MESSAGE_QUEUE THEN Tail(old(s)) ELSE old(s))
                  ELSE queues[s] = old(s)

\* a message was published to a channel with a subscriber while a
\* subscriber of the other channel only had a message queued
C18_Witness ==
    /\ req.done /\ req.op = "publish" /\ enc.ret = 1
    /\ \E s \in DOMAIN queues :
          /\ s \notin req.before.subscriptions[req.channel]
          /\ queues[s] # <<>>
          /\ \E c \in Inputs.Channels : c # req.channel /\ s \in subscriptions[c]

\* the last call was a subscribe or an unsubscribe that repeats the call
\* before it
Repeated == req.done /\ req.op \in {"subscribe", "unsubscribe"} /\ req.again

\* C19 as stated: a subscribe or unsubscribe that repeats the call before
\* it leaves the queues, the subscriptions and the counters of the router
\* as they were.
C19_SameState ==
    Repeated =>
        [queues |-> queues, subscriptions |-> subscriptions, metrics |-> metrics] = req.before

\* C19: a subscribe or unsubscribe that repeats the call before it leaves
\* the subscriptions, the queues and the published-message counter as they
\* were; the counter metrics["subscriptions"] counts every subscribe call.
C19_SameSubscriptions ==
    Repeated =>
        /\ subscriptions = req.before.subscriptions
        /\ queues = req.before.queues
        /\ metrics.messages_published = req.before.metrics.messages_published
        /\ metrics.subscriptions = req.before.metrics.subscriptions
                                      + (IF req.op = "subscribe" THEN 1 ELSE 0)

\* a subscribe repeated the subscribe before it
C19_Witness == Repeated /\ req.op = "subscribe" /\ req.subscriber \in subscriptions[req.channel]

(***************************************************************************)
(* SpecMetrics: every router operation, and get_metrics on the router they *)
(* leave                                                                   *)
(***************************************************************************)
\* a get_metrics that reports the counter metrics["subscriptions"]
get_metrics_Counter(m, subs, qs, cv, rl) ==
    [total_messages |-> m.messages_published,
     active_subscriptions |-> m.subscriptions,
     active_queues |-> Cardinality(DOMAIN qs),
     consensus_items |-> Cardinality(DOMAIN cv),
     rate_limited_clients |-> Cardinality(DOMAIN rl)]

\* MessageRouter.get_metrics on the router's metrics, subscriptions,
\* queues, consensus_votes and rate_limits
get_metrics(m, subs, qs, cv, rl) ==
    LET RECURSIVE sum(_)
        sum(channels) ==
            IF channels = {} THEN 0
            ELSE LET c == CHOOSE x \in channels : TRUE
                 IN  Cardinality(subs[c]) + sum(channels \ {c})
    IN  [total_messages |-> m.messages_published,
         active_subscriptions |-> sum(DOMAIN subs),
         active_queues |-> Cardinality(DOMAIN qs),
         consensus_items |-> Cardinality(DOMAIN cv),
         rate_limited_clients |-> Cardinality(DOMAIN rl)]

\* one subscriber on two channels, publishing on one of them, one voter
\* on two actions, and the clients of the rate limiter
NextMetrics ==
    \/ \E c \in Inputs.Channels, s \in Inputs.BroadcastSubscribers : RouterCall("subscribe", c, s)
    \/ \E c \in Inputs.Channels, s \in Inputs.BroadcastSubscribers : RouterCall("unsubscribe", c, s)
    \/ \E c \in Inputs.QChannels : RouterCall("publish", c, NoneVal)
    \/ \E s \in Inputs.BroadcastSubscribers : GetMessages(s, 1)
    \/ \E a \in {"a1", "a2"} : AddConsensusVote(a, "v1", "x")
    \/ \E c \in Inputs.Clients : CheckRateLimit(c)

SpecMetrics == Init /\ [][NextMetrics]_vars

\* C22: after any sequence of router operations get_metrics reports as
\* total_messages the number of publish calls made, as active_subscriptions
\* the number of (channel, subscriber) pairs now subscribed, as
\* active_queues the number of subscribers that have a queue (those a
\* message was ever queued for), as consensus_items the number of tracked
\* actions and as rate_limited_clients the number of clients the rate
\* limiter has seen.
C22_MetricsCount ==
    get_metrics(metrics, subscriptions, queues, consensus_votes, rate_limits)
        = [total_messages |-> IF req.done THEN req.publishes ELSE 0,
           active_subscriptions |->
               Cardinality({p \in Inputs.Channels \X Inputs.Subscribers :
                               p[2] \in subscriptions[p[1]]}),
           active_queues |-> Cardinality({s \in Inputs.Subscribers : pubLog[s] # <<>>}),
           consensus_items |-> Len(voteOrder),
           rate_limited_clients |-> Cardinality({c \in Inputs.Clients : allowedLog[c] # <<>>})]

\* a subscriber has left a channel it had subscribed to twice, a publish
\* reached nobody, and queues, actions and clients are tracked
C22_Witness ==
    /\ req.done /\ req.publishes = 2 /\ req.op = "publish" /\ enc.ret = 0
    /\ metrics.subscriptions = 2
    /\ \A c \in Inputs.Channels : subscriptions[c] = {}
    /\ \E s \in DOMAIN queues : queues[s] = <<>>
    /\ consensus_votes # <<>> /\ rate_limits # <<>>

(***************************************************************************)
(* SpecThreads: add_consensus_vote called from several threads at once.    *)
(* submit_consensus_vote is a plain `def` endpoint, which the framework    *)
(* runs on a worker thread per request, and agent_websocket calls it from  *)
(* the event loop thread; add_consensus_vote takes no lock, so the threads *)
(* interleave between its steps: len(self.consensus_votes) >= cap,         *)
(* min(self.consensus_votes.keys()), del self.consensus_votes[oldest],     *)
(* self.consensus_votes[action_id][voter_id] = vote. A call that raises    *)
(* stays at the exception it raised.                                       *)
(***************************************************************************)
\* a thread enters add_consensus_vote(action_id, t, vote)
CallAddVote(t, action_id, vote) ==
    /\ calls[t].pc = "idle"
    /\ calls' = [calls EXCEPT ![t] = [pc |-> "len", action_id |-> action_id,
                                      voter_id |-> t, vote |-> vote]]
    /\ UNCHANGED <<now, queueVars, rateVars, codecVars, consensus_votes, voteOrder>>

\* if len(self.consensus_votes) >= config.MAX_CONSENSUS_ITEMS
ReadLen(t) ==
    /\ calls[t].pc = "len"
    /\ calls' = [calls EXCEPT ![t].pc =
                    IF Cardinality(DOMAIN consensus_votes) >= MAX_CONSENSUS_ITEMS
                    THEN "min" ELSE "set"]
    /\ UNCHANGED <<now, queueVars, rateVars, codecVars, consensus_votes, voteOrder>>

\* oldest = min(self.consensus_votes.keys()); min() of no keys raises
ChooseOldest(t) ==
    /\ calls[t].pc = "min"
    /\ calls' = IF DOMAIN consensus_votes = {}
                THEN [calls EXCEPT ![t].pc = "ValueError"]
                ELSE [calls EXCEPT ![t] = [pc |-> "del", action_id |-> @.action_id,
                                           voter_id |-> @.voter_id, vote |-> @.vote,
                                           oldest |-> MinKey(DOMAIN consensus_votes)]]
    /\ UNCHANGED <<now, queueVars, rateVars, codecVars, consensus_votes, voteOrder>>

\* del self.consensus_votes[oldest]; a key that is gone raises KeyError
DeleteOldest(t) ==
    /\ calls[t].pc = "del"
    /\ IF calls[t].oldest \in DOMAIN consensus_votes
       THEN /\ consensus_votes' = [a \in (DOMAIN consensus_votes) \ {calls[t].oldest} |->
                                     consensus_votes[a]]
            /\ voteOrder' = SelectSeq(voteOrder, LAMBDA k : k # calls[t].oldest)
            /\ calls' = [calls EXCEPT ![t].pc = "set"]
       ELSE /\ calls' = [calls EXCEPT ![t].pc = "KeyError"]
            /\ UNCHANGED <<consensus_votes, voteOrder>>
    /\ UNCHANGED <<now, queueVars, rateVars, codecVars>>

\* self.consensus_votes[action_id][voter_id] = vote, and the call returns
StoreVote(t) ==
    /\ calls[t].pc = "set"
    /\ LET c == calls[t]
           old == IF c.action_id \in DOMAIN consensus_votes
                  THEN consensus_votes[c.action_id] ELSE <<>>
       IN  /\ consensus_votes' =
                  [a \in (DOMAIN consensus_votes) \cup {c.action_id} |->
                      IF a = c.action_id THEN DictSet(old, c.voter_id, c.vote)
                      ELSE consensus_votes[a]]
           /\ voteOrder' = IF c.action_id \in DOMAIN consensus_votes THEN voteOrder
                           ELSE Append(voteOrder, c.action_id)
    /\ calls' = [calls EXCEPT ![t] = [pc |-> "idle"]]
    /\ UNCHANGED <<now, queueVars, rateVars, codecVars>>

NextThreads ==
    \/ \E t \in Inputs.Threads, a \in Inputs.ActionIds, x \in {"x"} : CallAddVote(t, a, x)
    \/ \E t \in Inputs.Threads : ReadLen(t)
    \/ \E t \in Inputs.Threads : ChooseOldest(t)
    \/ \E t \in Inputs.Threads : DeleteOldest(t)
    \/ \E t \in Inputs.Threads : StoreVote(t)

SpecThreads == Init /\ [][NextThreads]_vars

\* C21: while several threads run add_consensus_vote with their steps
\* interleaving freely, no call raises and the number of tracked actions
\* never exceeds MAX_CONSENSUS_ITEMS.
C21_ConcurrentAddVote ==
    /\ \A t \in Inputs.Threads : calls[t].pc \notin {"KeyError", "ValueError"}
    /\ Cardinality(DOMAIN consensus_votes) <= MAX_CONSENSUS_ITEMS

(***************************************************************************)
(* SpecSession: WebSocket sessions. /ws gives its client a fresh id and    *)
(* subscribes it to the channel a subscribe message names; /ws/agent/{id}  *)
(* subscribes the agent to "agents" and to its own channel and drains its  *)
(* queue in its loop. A handler ends in its `except WebSocketDisconnect`   *)
(* clause or with any other exception, which no clause of it catches (in   *)
(* agent_websocket: a text that is not JSON, a vote without action_id; in  *)
(* websocket_endpoint: a send_json that fails in the inner handler).       *)
(* The encode, decode and heartbeat messages change no router state.       *)
(***************************************************************************)
\* websocket_endpoint up to its loop
WsConnect(client) ==
    /\ sessions[client].state = "none"
    /\ sessions' = [sessions EXCEPT ![client].state = "open"]
    /\ UNCHANGED <<now, queues, subscriptions, metrics, pubLog, recvLog, popped,
                   rateVars, voteVars, codecVars>>

\* websocket_endpoint: {"type": "subscribe", "channel": channel}
WsSubscribe(client, channel) ==
    /\ sessions[client].state = "open"
    /\ channel \notin sessions[client].subscribed
    /\ subscriptions' = subscribe(subscriptions, channel, client)
    /\ metrics' = [metrics EXCEPT !.subscriptions = @ + 1]
    /\ sessions' = [sessions EXCEPT ![client].subscribed = @ \cup {channel}]
    /\ UNCHANGED <<now, queues, pubLog, recvLog, popped, rateVars, voteVars, codecVars>>

\* websocket_endpoint leaves its loop with the exception exc
WsEnd(client, exc) ==
    /\ sessions[client].state = "open"
    /\ subscriptions' = IF exc = "WebSocketDisconnect"
                        THEN unsubscribe(subscriptions, "general", client)
                        ELSE subscriptions
    /\ sessions' = [sessions EXCEPT ![client] =
                       [state |-> "ended", subscribed |-> @.subscribed, exc |-> exc,
                        published |-> metrics.messages_published]]
    /\ UNCHANGED <<now, queues, metrics, pubLog, recvLog, popped, rateVars, voteVars, codecVars>>

\* agent_websocket up to its loop
AgentConnect(agent_id) ==
    /\ sessions[agent_id].state = "none"
    /\ subscriptions' = subscribe(subscribe(subscriptions, "agents", agent_id),
                                  Inputs.AgentChannel[agent_id], agent_id)
    /\ metrics' = [metrics EXCEPT !.subscriptions = @ + 2]
    /\ sessions' = [sessions EXCEPT ![agent_id] =
                       [state |-> "open",
                        subscribed |-> {"agents", Inputs.AgentChannel[agent_id]}]]
    /\ UNCHANGED <<now, queues, pubLog, recvLog, popped, rateVars, voteVars, codecVars>>

\* agent_websocket leaves its loop with the exception exc
AgentEnd(agent_id, exc) ==
    /\ sessions[agent_id].state = "open"
    /\ subscriptions' = IF exc = "WebSocketDisconnect"
                        THEN unsubscribe(unsubscribe(subscriptions, "agents", agent_id),
                                         Inputs.AgentChannel[agent_id], agent_id)
                        ELSE subscriptions
    /\ sessions' = [sessions EXCEPT ![agent_id] =
                       [state |-> "ended", subscribed |-> @.subscribed, exc |-> exc,
                        published |-> metrics.messages_published]]
    /\ UNCHANGED <<now, queues, metrics, pubLog, recvLog, popped, rateVars, voteVars, codecVars>>

NextSession ==
    \/ \E client \in Inputs.WsClients : WsConnect(client)
    \/ \E client \in Inputs.WsClients, channel \in Inputs.SessionChannels : WsSubscribe(client, channel)
    \/ \E client \in Inputs.WsClients, exc \in Inputs.Raised : WsEnd(client, exc)
    \/ \E agent_id \in Inputs.Agents : AgentConnect(agent_id)
    \/ \E agent_id \in Inputs.Agents : sessions[agent_id].state = "open" /\ GetMessages(agent_id, 10)
    \/ \E agent_id \in Inputs.Agents, exc \in Inputs.Raised : AgentEnd(agent_id, exc)
    \/ \E channel \in Inputs.SessionChannels, ttl \in Inputs.TTLs : Publish(channel, ttl)

SpecSession == Init /\ [][NextSession]_vars

\* C31: once a WebSocket session has ended, by a disconnect or by an error
\* in its handler, its client is in none of the channels the session
\* subscribed it to, and no message published after the end has been
\* queued for it.
C31_EndedSessionUnsubscribed ==
    \A s \in Inputs.Subscribers :
        sessions[s].state = "ended" =>
            /\ \A channel \in sessions[s].subscribed : s \notin subscriptions[channel]
            /\ \A i \in 1..Len(pubLog[s]) : pubLog[s][i] <= sessions[s].published

====
